---- MODULE Spec2Model ----
(***************************************************************************)
(* Model of the Polisen events collector (src/collect_events.py).          *)
(*                                                                         *)
(* One invocation of the program is one run of PolisenCollector.run():     *)
(* fetch the feed, load the watermark (metadata/last_seen.json), filter    *)
(* the events whose id is not in it, write one object per date partition,  *)
(* then overwrite the watermark.  Object storage and the feed are the      *)
(* environment: every call to them may succeed or fail.                    *)
(*                                                                         *)
(* Strings are sequences of one-character strings, so that the regular     *)
(* expression of normalize_datetime and the date parsing act on them       *)
(* character by character.                                                 *)
(***************************************************************************)
EXTENDS Integers, Sequences, FiniteSets, TLC

\* ------------------------------------------------------------------ bounds

\* Longest feed response (number of events in one fetched batch).
MaxBatch == 2
\* Number of invocations of the program in one behaviour.
MaxRuns == 2
\* Largest value of the wall clock (epoch seconds, counted from 0).
MaxClock == 1
\* Longest feed response in the two-invocation specifications.
MaxFeed == 3

\* ------------------------------------------------------- program constants

\* sorted(seen_ids, reverse=True)[:1000]
MAX_TRACKED == 1000

\* The invocation slots: a scheduler starts the program in a free slot.
Procs == {"r1", "r2"}

\* ----------------------------------------------------------------- strings

Digits == {"0", "1", "2", "3", "4", "5", "6", "7", "8", "9"}

DigitVal(c) ==
    CASE c = "0" -> 0 [] c = "1" -> 1 [] c = "2" -> 2 [] c = "3" -> 3
      [] c = "4" -> 4 [] c = "5" -> 5 [] c = "6" -> 6 [] c = "7" -> 7
      [] c = "8" -> 8 [] c = "9" -> 9

\* s[i] is a decimal digit (False beyond the end of s).
DigitAt(s, i) == i <= Len(s) /\ s[i] \in Digits

\* s[i] is the character c (False beyond the end of s).
CharAt(s, i, c) == i <= Len(s) /\ s[i] = c

\* The two-digit number at s[i], s[i+1].
Num2(s, i) == 10 * DigitVal(s[i]) + DigitVal(s[i + 1])

\* re.match(pattern, datetime_str) with
\*   pattern = (\d{4}-\d{2}-\d{2}) (\d):(\d{2}:\d{2} [+-]\d{2}:\d{2})
\* re.match anchors at the start only: the match is a prefix of 25 characters.
PatternMatches(s) ==
    /\ \A i \in {1, 2, 3, 4, 6, 7, 9, 10} : DigitAt(s, i)
    /\ CharAt(s, 5, "-") /\ CharAt(s, 8, "-")
    /\ CharAt(s, 11, " ")
    /\ DigitAt(s, 12)
    /\ CharAt(s, 13, ":")
    /\ DigitAt(s, 14) /\ DigitAt(s, 15)
    /\ CharAt(s, 16, ":")
    /\ DigitAt(s, 17) /\ DigitAt(s, 18)
    /\ CharAt(s, 19, " ")
    /\ (CharAt(s, 20, "+") \/ CharAt(s, 20, "-"))
    /\ DigitAt(s, 21) /\ DigitAt(s, 22)
    /\ CharAt(s, 23, ":")
    /\ DigitAt(s, 24) /\ DigitAt(s, 25)

\* Mutant of normalize_datetime: the hour of the pattern is (\d{1,2}), so a
\* "0" is put before an hour of two digits as well.
normalize_datetime_PadsEveryHour(s) ==
    IF /\ \A i \in {1, 2, 3, 4, 6, 7, 9, 10, 12} : DigitAt(s, i)
       /\ CharAt(s, 5, "-") /\ CharAt(s, 8, "-") /\ CharAt(s, 11, " ")
       /\ (CharAt(s, 13, ":") \/ (DigitAt(s, 13) /\ CharAt(s, 14, ":")))
    THEN SubSeq(s, 1, 11) \o <<"0">> \o SubSeq(s, 12, Len(s))
    ELSE s

\* PolisenCollector.normalize_datetime: f"{date_part} 0{hour}:{rest}" of the
\* three groups of the match, the input itself when there is no match.
normalize_datetime(s) ==
    IF PatternMatches(s)
    THEN LET date_part == SubSeq(s, 1, 10)
             hour      == SubSeq(s, 12, 12)
             rest      == SubSeq(s, 14, 25)
         IN  date_part \o <<" ", "0">> \o hour \o <<":">> \o rest
    ELSE s

IsLeap(y) == (y % 4 = 0 /\ y % 100 # 0) \/ y % 400 = 0

DaysInMonth(y, m) ==
    IF m = 2 THEN (IF IsLeap(y) THEN 29 ELSE 28)
    ELSE IF m \in {4, 6, 9, 11} THEN 30 ELSE 31

\* The date part YYYY-MM-DD of an ISO string names a day of the calendar.
ValidDate(s) ==
    /\ Len(s) >= 10
    /\ \A i \in {1, 2, 3, 4, 6, 7, 9, 10} : DigitAt(s, i)
    /\ s[5] = "-" /\ s[8] = "-"
    /\ LET y == 100 * Num2(s, 1) + Num2(s, 3)
           m == Num2(s, 6)
           d == Num2(s, 9)
       IN  y >= 1 /\ m \in 1..12 /\ d \in 1..DaysInMonth(y, m)

\* The time part HH:MM:SS at s[12..19].
ValidTime(s) ==
    /\ Len(s) >= 19
    /\ \A i \in {12, 13, 15, 16, 18, 19} : DigitAt(s, i)
    /\ s[14] = ":" /\ s[17] = ":"
    /\ Num2(s, 12) <= 23 /\ Num2(s, 15) <= 59 /\ Num2(s, 18) <= 59

\* The UTC offset +HH:MM or -HH:MM at s[k..k+5], the last characters of s.
ValidOffset(s, k) ==
    /\ Len(s) = k + 5
    /\ s[k] \in {"+", "-"}
    /\ DigitAt(s, k + 1) /\ DigitAt(s, k + 2)
    /\ s[k + 3] = ":"
    /\ DigitAt(s, k + 4) /\ DigitAt(s, k + 5)
    /\ Num2(s, k + 1) <= 23

\* datetime.fromisoformat(s) succeeds.  Modelled for the shapes
\*   YYYY-MM-DD, YYYY-MM-DD?HH:MM:SS, YYYY-MM-DD?HH:MM:SS[?]+HH:MM
\* (? any one character); every other string raises ValueError here.
IsoParses(s) ==
    /\ ValidDate(s)
    /\ \/ Len(s) = 10
       \/ /\ ValidTime(s)
          /\ \/ Len(s) = 19
             \/ ValidOffset(s, 20)
             \/ ValidOffset(s, 21)

\* event_dt.strftime('%Y/%m/%d') of the parsed string: the calendar date as
\* written in the string, in the event's own offset (years 1000..9999).
StrfDate(s) == SubSeq(s, 1, 4) \o <<"/">> \o SubSeq(s, 6, 7) \o <<"/">> \o SubSeq(s, 9, 10)

\* ------------------------------------------------------------------ events

\* An element of the feed's JSON array.  isdict: it is a JSON object;
\* has_id / has_datetime: the object has the key; payload stands for the
\* fields the collector passes through (name, summary, url, type, location).
Event(id, dt, payload) ==
    [isdict |-> TRUE, has_id |-> TRUE, id |-> id,
     has_datetime |-> TRUE, datetime |-> dt, payload |-> payload]

\* "2026-01-02 9:38:09 +01:00": single-digit hour, as the feed sends it.
DT_A9 ==
    <<"2","0","2","6","-","0","1","-","0","2"," ","9",":","3","8",":","0","9"," ","+","0","1",":","0","0">>
\* "2026-01-02 19:56:53 +01:00"
DT_A19 ==
    <<"2","0","2","6","-","0","1","-","0","2"," ","1","9",":","5","6",":","5","3"," ","+","0","1",":","0","0">>
\* "2026-01-03 09:15:00 +01:00"
DT_B ==
    <<"2","0","2","6","-","0","1","-","0","3"," ","0","9",":","1","5",":","0","0"," ","+","0","1",":","0","0">>
\* "2026-01-04 23:59:59 -05:00": a third calendar day, in another offset.
DT_C ==
    <<"2","0","2","6","-","0","1","-","0","4"," ","2","3",":","5","9",":","5","9"," ","-","0","5",":","0","0">>
\* "invalid-date"
DT_BAD ==
    <<"i","n","v","a","l","i","d","-","d","a","t","e">>

\* Ids the watermark of a long-running deployment holds: MAX_TRACKED of them.
FullIds == 6..(MAX_TRACKED + 5)
\* An id above every tracked id (a newer event).
TopId == MAX_TRACKED + 6

\* A JSON object without the key "id".
EventNoId ==
    [isdict |-> TRUE, has_id |-> FALSE, id |-> 0,
     has_datetime |-> TRUE, datetime |-> DT_A19, payload |-> "a"]

\* The events the feed can return.
Events ==
    { Event(1, DT_A19, "a"), Event(1, DT_A19, "b"),
      Event(4, DT_A9, "a"),
      Event(5, DT_B, "a"), Event(5, DT_BAD, "a"),
      Event(TopId, DT_C, "a"),
      EventNoId }

\* Three events of three calendar days, none of them in a watermark.
DayEvents == {Event(4, DT_A9, "a"), Event(5, DT_B, "a"), Event(7, DT_C, "a")}

\* The feed responses of the two-invocation specifications: the lists of at
\* most MaxFeed of these events, each event at most once (an id is unique in
\* the source), and a list whose element has no id.
Feeds ==
    {f \in UNION {[1..n -> DayEvents] : n \in 0..MaxFeed} :
        \A i, j \in 1..Len(f) : f[i] = f[j] => i = j}
    \cup {<<EventNoId>>}

\* The shorter ones, for two invocations that run at the same time.
ShortFeeds == {f \in Feeds : Len(f) <= MaxBatch}

\* The feed responses that are lists: every list of at most MaxBatch events.
Batches == UNION {[1..n -> Events] : n \in 0..MaxBatch}

Range(s) == {s[i] : i \in 1..Len(s)}

Min(a, b) == IF a <= b THEN a ELSE b

\* ------------------------------------------------------------------ errors

\* An exception: its class and, for an HTTP or storage answer, the status.
Err(type, status) == [type |-> type, status |-> status]

\* No exception has been raised.
NoError == [raised |-> Err("none", 0), handled |-> Err("none", 0)]

\* fetch_events: what requests.get and raise_for_status raise.
RequestExceptions ==
    {Err("Timeout", 0), Err("ConnectionError", 0), Err("HTTPError", 500)}

\* fetch_events: what response.json() and the isinstance check raise.
InvalidResponses == {Err("JSONDecodeError", 0), Err("ValueError", 0)}

\* The exception is an instance of ValueError: json's JSONDecodeError, which
\* response.json() raises, is a subclass of it.
IsValueError(e) == e.type \in {"ValueError", "JSONDecodeError"}

\* __init__: what get_oci_config_from_vault, oci.config.from_file and
\* ObjectStorageClient raise (vault authentication, a secret that is missing
\* or malformed, a client that cannot be created).
InitErrors == {Err("VaultError", 401), Err("ValueError", 0), Err("ClientError", 0)}

\* get_object: the failures other than ServiceError with status 404.
GetErrors ==
    {Err("ServiceError", 401), Err("ServiceError", 500), Err("ConnectTimeout", 0)}

\* put_object: the failures of a write.
PutErrors == {Err("ServiceError", 503), Err("ConnectTimeout", 0)}

\* ------------------------------------------------------------- pure steps

\* event['id'] can be evaluated for every element of the batch.
AllHaveId(batch) == \A i \in 1..Len(batch) : batch[i].isdict /\ batch[i].has_id

\* Mutant of NewEvents: an id is taken once; later events of the batch with
\* the same id are dropped.
NewEvents_FirstOfEachId(batch, seen) ==
    LET idx == {i \in 1..Len(batch) :
                  /\ batch[i].id \notin seen
                  /\ \A j \in 1..(i - 1) : batch[j].id # batch[i].id}
        nth(k) == CHOOSE i \in idx : Cardinality({j \in idx : j < i}) = k - 1
    IN  [k \in 1..Cardinality(idx) |-> batch[nth(k)]]

\* Mutant of NewEvents: no filtering, every fetched event is new.
NewEvents_Unfiltered(batch, seen) == batch

\* run(), line 250: what event['id'] raises at the first element that has no
\* id: TypeError for an element that is not a dict, KeyError for a dict.
FilterError(batch) ==
    LET i == CHOOSE i \in 1..Len(batch) :
                 /\ ~(batch[i].isdict /\ batch[i].has_id)
                 /\ \A j \in 1..(i - 1) : batch[j].isdict /\ batch[j].has_id
    IN  IF batch[i].isdict THEN Err("KeyError", 0) ELSE Err("TypeError", 0)

\* run(): new_events = [event for event in all_events if event['id'] not in seen_ids]
NewEvents(batch, seen) == SelectSeq(batch, LAMBDA e : e.id \notin seen)

\* run(): new_ids = {event['id'] for event in all_events}
BatchIds(batch) == {batch[i].id : i \in 1..Len(batch)}

\* Mutant of UpdatedSeenIds: only the ids of the events that were stored are
\* added to the loaded ones.
UpdatedSeenIds_StoredOnly(seen, batch) ==
    seen \cup {batch[i].id : i \in {j \in 1..Len(batch) :
                                      /\ batch[j].has_datetime
                                      /\ batch[j].datetime # DT_BAD}}

\* Mutant of UpdatedSeenIds: the ids of the batch replace the loaded ones.
UpdatedSeenIds_BatchOnly(seen, batch) == BatchIds(batch)

\* Mutant of UpdatedSeenIds: the loaded ids are saved back without the batch.
UpdatedSeenIds_LoadedOnly(seen, batch) == seen

\* run(): updated_seen_ids = seen_ids.union(new_ids)
UpdatedSeenIds(seen, batch) == seen \cup BatchIds(batch)

RECURSIVE DescRange(_, _, _)
\* The elements of S, a subset of lo..hi, largest first.  When S is all of
\* lo..hi the list is hi, hi-1, ..., lo; otherwise the upper half of the range
\* is listed before the lower half.
DescRange(S, lo, hi) ==
    IF S = {} THEN <<>>
    ELSE IF Cardinality(S) = hi - lo + 1
    THEN [i \in 1..(hi - lo + 1) |-> hi - i + 1]
    ELSE LET mid   == (lo + hi) \div 2
             upper == S \cap ((mid + 1)..hi)
         IN  DescRange(upper, mid + 1, hi) \o DescRange(S \ upper, lo, mid)

\* sorted(seen_ids, reverse=True)
SortedDesc(S) == DescRange(S, 0, TopId)

\* Mutant of SeenIdsList: sorted without reverse=True.
SeenIdsList_Ascending(S) ==
    LET all == SortedDesc(S)
        asc == [i \in 1..Len(all) |-> all[Len(all) + 1 - i]]
    IN  SubSeq(asc, 1, Min(MAX_TRACKED, Len(all)))

\* Mutant of SeenIdsList: the list is not cut to 1000 ids.
SeenIdsList_Untruncated(S) == SortedDesc(S)

\* update_last_seen_ids: seen_ids_list = sorted(seen_ids, reverse=True)[:1000]
SeenIdsList(S) ==
    LET all == SortedDesc(S)
    IN  SubSeq(all, 1, Min(MAX_TRACKED, Len(all)))

\* update_last_seen_ids: the metadata written at time t.
Metadata(S, t) ==
    LET seen_ids_list == SeenIdsList(S)
    IN  [exists |-> TRUE,
         seen_ids |-> seen_ids_list,
         last_updated |-> t,
         total_tracked |-> Len(seen_ids_list)]

\* No object at metadata/last_seen.json.
NoWatermark ==
    [exists |-> FALSE, seen_ids |-> <<>>, last_updated |-> 0, total_tracked |-> 0]

\* save_events: the event passes the structure check of line 199.
ValidStructure(e) == e.isdict /\ e.has_id /\ e.has_datetime

\* save_events: the event gets a date key (no ValueError in the try block).
Storable(e) == ValidStructure(e) /\ IsoParses(normalize_datetime(e.datetime))

\* The decimal digit of n, 0 <= n <= 9.
DigitChar(n) == CHOOSE c \in Digits : DigitVal(c) = n

\* Mutant of DateKey: the timestamp is converted to UTC before the date is
\* taken (astimezone(timezone.utc)); s is YYYY-MM-DD HH:MM:SS +HH:MM and the
\* day stays within its month.
DateKey_Utc(e) ==
    LET s       == normalize_datetime(e.datetime)
        minutes == 60 * Num2(s, 12) + Num2(s, 15)
        offset  == 60 * Num2(s, 22) + Num2(s, 25)
        utc     == IF s[21] = "+" THEN minutes - offset ELSE minutes + offset
        day     == Num2(s, 9) + (IF utc < 0 THEN -1 ELSE IF utc >= 1440 THEN 1 ELSE 0)
    IN  SubSeq(s, 1, 4) \o <<"/">> \o SubSeq(s, 6, 7) \o <<"/">>
            \o <<DigitChar(day \div 10), DigitChar(day % 10)>>

\* save_events: date_key of a storable event.
DateKey(e) == StrfDate(normalize_datetime(e.datetime))

\* save_events: events_by_date after one more event; a dict in insertion order.
AddByDate(by_date, e) ==
    IF ~Storable(e) THEN by_date
    ELSE LET k == DateKey(e)
         IN  IF \E j \in 1..Len(by_date) : by_date[j].date = k
             THEN [j \in 1..Len(by_date) |->
                     IF by_date[j].date = k
                     THEN [by_date[j] EXCEPT !.events = Append(@, e)]
                     ELSE by_date[j]]
             ELSE Append(by_date, [date |-> k, events |-> <<e>>])

RECURSIVE GroupFrom(_, _, _)
GroupFrom(events, i, by_date) ==
    IF i > Len(events) THEN by_date
    ELSE GroupFrom(events, i + 1, AddByDate(by_date, events[i]))

\* save_events: events_by_date of the whole list.
GroupByDate(events) == GroupFrom(events, 1, <<>>)

\* save_events: object_name = f"events/{date_path}/events-{timestamp}.jsonl"
ObjectName(date_path, timestamp) == [date |-> date_path, ts |-> timestamp]

\* save_events: the object put for one partition; one line per event.
PartitionObject(part, timestamp) ==
    [name |-> ObjectName(part.date, timestamp), lines |-> part.events]

\* put_object overwrites the object of the same name.
PutObject(objs, obj) == {o \in objs : o.name # obj.name} \cup {obj}

\* ------------------------------------------------------------------- state

VARIABLES
    now,             \* the wall clock (epoch seconds) when it was last read
    wm,              \* storage: the object metadata/last_seen.json
    objects,         \* storage: the partition objects events/.../events-N.jsonl
    runs,            \* number of invocations started so far
    pc,              \* per invocation: where run() is
    all_events,      \* run(): all_events
    seen_ids,        \* run(): seen_ids
    new_events,      \* run(): new_events
    events_by_date,  \* save_events(): the partitions still to be written
    exit_code,       \* the process exit code of a finished invocation
    error,           \* the exception that ended the invocation, if any
    log,             \* history: the calls the invocation made, with their outcome
    wm_start,        \* history: the watermark object when the invocation started
    objects_start,   \* history: the partition objects when the invocation started
    written,         \* history: the partition objects the invocation has put
    datetime_str,    \* normalize_datetime on its own: the argument of the first call
    normalized       \* normalize_datetime on its own: the results of the calls so far

vars ==
    <<now, wm, objects, runs, pc, all_events, seen_ids, new_events,
      events_by_date, exit_code, error, log, wm_start, objects_start, written,
      datetime_str, normalized>>

\* The variables of the calls of normalize_datetime outside a run.
calls == <<datetime_str, normalized>>

storage == <<wm, objects>>

\* The watermark objects a deployment can start from: none (cold start), the
\* one of the test fixture ({"seen_ids": [1, 2, 3]}), and a full one.
InitWatermarks == {NoWatermark, Metadata({1, 2, 3}, 0), Metadata(FullIds, 0)}

\* No invocation has started yet.
InitRun ==
    /\ now = 0
    /\ wm \in InitWatermarks
    /\ objects = {}
    /\ runs = 0
    /\ pc = [p \in Procs |-> "idle"]
    /\ all_events = [p \in Procs |-> <<>>]
    /\ seen_ids = [p \in Procs |-> {}]
    /\ new_events = [p \in Procs |-> <<>>]
    /\ events_by_date = [p \in Procs |-> <<>>]
    /\ exit_code = [p \in Procs |-> 0]
    /\ error = [p \in Procs |-> NoError]
    /\ log = [p \in Procs |-> <<>>]
    /\ wm_start = [p \in Procs |-> NoWatermark]
    /\ objects_start = [p \in Procs |-> {}]
    /\ written = [p \in Procs |-> <<>>]

\* The deployment: normalize_datetime is called by save_events only.
Init ==
    /\ InitRun
    /\ datetime_str = <<>>
    /\ normalized = <<>>

\* ----------------------------------------------------------------- actions

\* The invocation starts: history of what storage held.
Started(p, call) ==
    /\ pc[p] = "idle"
    /\ runs < MaxRuns
    /\ runs' = runs + 1
    /\ log' = [log EXCEPT ![p] = <<call>>]
    /\ wm_start' = [wm_start EXCEPT ![p] = wm]
    /\ objects_start' = [objects_start EXCEPT ![p] = objects]
    /\ written' = [written EXCEPT ![p] = <<>>]

\* except Exception: logger.error(...); sys.exit(1)
Failed(p, e) ==
    /\ pc' = [pc EXCEPT ![p] = "failed"]
    /\ exit_code' = [exit_code EXCEPT ![p] = 1]
    /\ error' = [error EXCEPT ![p] = [raised |-> e, handled |-> e]]

\* "Collection completed successfully"; the process ends with exit code 0.
Completed(p) ==
    /\ pc' = [pc EXCEPT ![p] = "done"]
    /\ exit_code' = [exit_code EXCEPT ![p] = 0]
    /\ UNCHANGED error

\* Mutant of ConstructorRaises: the exception is logged and not raised again;
\* run() is called on the collector and gets an empty list from the feed.
ConstructorRaises_Swallowed(p) ==
    /\ Started(p, "init_error")
    /\ all_events' = [all_events EXCEPT ![p] = <<>>]
    /\ pc' = [pc EXCEPT ![p] = "fetched"]
    /\ UNCHANGED calls /\ UNCHANGED <<now, wm, objects, seen_ids, new_events, events_by_date, exit_code, error>>

\* __init__, lines 89-104: resolving the credentials or creating the storage
\* client raises; the exception is logged and raised again.  No collector is
\* returned and run() is not called: the exception ends the process
\* (traceback, exit code 1) without passing through the handler of run().
ConstructorRaises(p) ==
    /\ Started(p, "init_error")
    /\ \E e \in InitErrors :
         error' = [error EXCEPT ![p] = [raised |-> e, handled |-> Err("none", 0)]]
    /\ pc' = [pc EXCEPT ![p] = "failed"]
    /\ exit_code' = [exit_code EXCEPT ![p] = 1]
    /\ UNCHANGED calls /\ UNCHANGED <<now, wm, objects, all_events, seen_ids, new_events, events_by_date>>

\* fetch_events returns the list the feed answered, one of responses.
FetchOkFrom(p, responses) ==
    /\ Started(p, "fetch_ok")
    /\ \E batch \in responses : all_events' = [all_events EXCEPT ![p] = batch]
    /\ pc' = [pc EXCEPT ![p] = "fetched"]
    /\ UNCHANGED calls /\ UNCHANGED <<now, wm, objects, seen_ids, new_events, events_by_date, exit_code, error>>

\* fetch_events against a feed that answers any list of at most MaxBatch events.
FetchOk(p) == FetchOkFrom(p, Batches)

\* Mutant of FetchNetworkError: the exception is logged and an empty list is
\* returned, so run() goes on.
FetchNetworkError_ReturnsEmpty(p) ==
    /\ Started(p, "fetch_network_error")
    /\ all_events' = [all_events EXCEPT ![p] = <<>>]
    /\ pc' = [pc EXCEPT ![p] = "fetched"]
    /\ UNCHANGED calls /\ UNCHANGED <<now, wm, objects, seen_ids, new_events, events_by_date, exit_code, error>>

\* fetch_events: requests.RequestException (timeout, connection, HTTP status).
FetchNetworkError(p) ==
    /\ Started(p, "fetch_network_error")
    /\ \E e \in RequestExceptions : Failed(p, e)
    /\ UNCHANGED calls /\ UNCHANGED <<now, wm, objects, all_events, seen_ids, new_events, events_by_date>>

\* Mutant of FetchInvalid: a body that is not a list is taken as no events.
FetchInvalid_ReturnsEmpty(p) ==
    /\ Started(p, "fetch_invalid")
    /\ all_events' = [all_events EXCEPT ![p] = <<>>]
    /\ pc' = [pc EXCEPT ![p] = "fetched"]
    /\ UNCHANGED calls /\ UNCHANGED <<now, wm, objects, seen_ids, new_events, events_by_date, exit_code, error>>

\* fetch_events: the body is not JSON or not a list (ValueError).
FetchInvalid(p) ==
    /\ Started(p, "fetch_invalid")
    /\ \E e \in InvalidResponses : Failed(p, e)
    /\ UNCHANGED calls /\ UNCHANGED <<now, wm, objects, all_events, seen_ids, new_events, events_by_date>>

\* Mutant of GetSeenOk: the list is read under a key the metadata does not
\* have, so the default [] is returned.
GetSeenOk_WrongKey(p) ==
    /\ pc[p] = "fetched"
    /\ wm.exists
    /\ seen_ids' = [seen_ids EXCEPT ![p] = {}]
    /\ pc' = [pc EXCEPT ![p] = "loaded"]
    /\ log' = [log EXCEPT ![p] = Append(@, "get_ok")]
    /\ UNCHANGED calls /\ UNCHANGED <<now, wm, objects, runs, all_events, new_events, events_by_date,
                   exit_code, error, wm_start, objects_start, written>>

\* get_last_seen_ids: the object exists; set(data.get('seen_ids', [])).
GetSeenOk(p) ==
    /\ pc[p] = "fetched"
    /\ wm.exists
    /\ seen_ids' = [seen_ids EXCEPT ![p] = Range(wm.seen_ids)]
    /\ pc' = [pc EXCEPT ![p] = "loaded"]
    /\ log' = [log EXCEPT ![p] = Append(@, "get_ok")]
    /\ UNCHANGED calls /\ UNCHANGED <<now, wm, objects, runs, all_events, new_events, events_by_date,
                   exit_code, error, wm_start, objects_start, written>>

\* Mutant of GetSeenNotFound: status 404 is raised like any other error.
GetSeenNotFound_Raises(p) ==
    /\ pc[p] = "fetched"
    /\ ~wm.exists
    /\ Failed(p, Err("ServiceError", 404))
    /\ log' = [log EXCEPT ![p] = Append(@, "get_404")]
    /\ UNCHANGED calls /\ UNCHANGED <<now, wm, objects, runs, all_events, seen_ids, new_events,
                   events_by_date, wm_start, objects_start, written>>

\* get_last_seen_ids: ServiceError with status 404; return set().
GetSeenNotFound(p) ==
    /\ pc[p] = "fetched"
    /\ ~wm.exists
    /\ seen_ids' = [seen_ids EXCEPT ![p] = {}]
    /\ pc' = [pc EXCEPT ![p] = "loaded"]
    /\ log' = [log EXCEPT ![p] = Append(@, "get_404")]
    /\ UNCHANGED calls /\ UNCHANGED <<now, wm, objects, runs, all_events, new_events, events_by_date,
                   exit_code, error, wm_start, objects_start, written>>

\* Mutant of GetSeenError: every failure of the load is taken as a cold start.
GetSeenError_TreatedAsEmpty(p) ==
    /\ pc[p] = "fetched"
    /\ seen_ids' = [seen_ids EXCEPT ![p] = {}]
    /\ pc' = [pc EXCEPT ![p] = "loaded"]
    /\ log' = [log EXCEPT ![p] = Append(@, "get_error")]
    /\ UNCHANGED calls /\ UNCHANGED <<now, wm, objects, runs, all_events, new_events, events_by_date,
                   exit_code, error, wm_start, objects_start, written>>

\* get_last_seen_ids: any other ServiceError is raised again; an exception of
\* another class is not caught there at all.
GetSeenError(p) ==
    /\ pc[p] = "fetched"
    /\ \E e \in GetErrors : Failed(p, e)
    /\ log' = [log EXCEPT ![p] = Append(@, "get_error")]
    /\ UNCHANGED calls /\ UNCHANGED <<now, wm, objects, runs, all_events, seen_ids, new_events,
                   events_by_date, wm_start, objects_start, written>>

\* Mutant of FilterRaises: the exception of the filter is caught and logged,
\* and the run ends as completed without saving anything.
FilterRaises_Swallowed(p) ==
    /\ pc[p] = "loaded"
    /\ ~AllHaveId(all_events[p])
    /\ Completed(p)
    /\ UNCHANGED calls /\ UNCHANGED <<now, wm, objects, runs, all_events, seen_ids, new_events,
                   events_by_date, log, wm_start, objects_start, written>>

\* run(), line 250: an element without 'id' raises in the comprehension.
FilterRaises(p) ==
    /\ pc[p] = "loaded"
    /\ ~AllHaveId(all_events[p])
    /\ Failed(p, FilterError(all_events[p]))
    /\ UNCHANGED calls /\ UNCHANGED <<now, wm, objects, runs, all_events, seen_ids, new_events,
                   events_by_date, log, wm_start, objects_start, written>>

\* Mutant of FilterNoNew: the watermark is saved also when nothing is new.
FilterNoNew_StillSaves(p) ==
    /\ pc[p] = "loaded"
    /\ AllHaveId(all_events[p])
    /\ NewEvents(all_events[p], seen_ids[p]) = <<>>
    /\ new_events' = [new_events EXCEPT ![p] = <<>>]
    /\ events_by_date' = [events_by_date EXCEPT ![p] = <<>>]
    /\ pc' = [pc EXCEPT ![p] = "saving"]
    /\ UNCHANGED calls /\ UNCHANGED <<now, wm, objects, runs, all_events, seen_ids, exit_code, error,
                   log, wm_start, objects_start, written>>

\* run(), lines 250-267: no new events; nothing is saved.
FilterNoNew(p) ==
    /\ pc[p] = "loaded"
    /\ AllHaveId(all_events[p])
    /\ NewEvents(all_events[p], seen_ids[p]) = <<>>
    /\ new_events' = [new_events EXCEPT ![p] = <<>>]
    /\ Completed(p)
    /\ UNCHANGED calls /\ UNCHANGED <<now, wm, objects, runs, all_events, seen_ids, events_by_date,
                   log, wm_start, objects_start, written>>

\* Mutant of FilterNew: the events are filtered against the ids that are in
\* storage when the filter runs, not against the ids the run loaded.
FilterNew_RereadsWatermark(p) ==
    /\ pc[p] = "loaded"
    /\ AllHaveId(all_events[p])
    /\ LET new == NewEvents(all_events[p], Range(wm.seen_ids))
       IN  /\ new # <<>>
           /\ new_events' = [new_events EXCEPT ![p] = new]
           /\ events_by_date' = [events_by_date EXCEPT ![p] = GroupByDate(new)]
    /\ pc' = [pc EXCEPT ![p] = "saving"]
    /\ UNCHANGED calls /\ UNCHANGED <<now, wm, objects, runs, all_events, seen_ids, exit_code, error,
                   log, wm_start, objects_start, written>>

\* run(), lines 250-256, and save_events up to line 214: the new events,
\* grouped by date.
FilterNew(p) ==
    /\ pc[p] = "loaded"
    /\ AllHaveId(all_events[p])
    /\ LET new == NewEvents(all_events[p], seen_ids[p])
       IN  /\ new # <<>>
           /\ new_events' = [new_events EXCEPT ![p] = new]
           /\ events_by_date' = [events_by_date EXCEPT ![p] = GroupByDate(new)]
    /\ pc' = [pc EXCEPT ![p] = "saving"]
    /\ UNCHANGED calls /\ UNCHANGED <<now, wm, objects, runs, all_events, seen_ids, exit_code, error,
                   log, wm_start, objects_start, written>>

\* Mutant of PutPartitionOk: the watermark is advanced with each partition
\* written, not once at the end of the run.
PutPartitionOk_AdvancesWatermark(p) ==
    /\ pc[p] = "saving"
    /\ events_by_date[p] # <<>>
    /\ \E t \in now..MaxClock :
         LET part == Head(events_by_date[p])
             obj  == PartitionObject(part, t)
         IN  /\ now' = t
             /\ objects' = PutObject(objects, obj)
             /\ written' = [written EXCEPT ![p] = Append(@, obj)]
             /\ wm' = Metadata(UpdatedSeenIds(Range(wm.seen_ids), part.events), t)
    /\ events_by_date' = [events_by_date EXCEPT ![p] = Tail(@)]
    /\ log' = [log EXCEPT ![p] = Append(@, "put_partition_ok")]
    /\ UNCHANGED calls /\ UNCHANGED <<runs, pc, all_events, seen_ids, new_events,
                   exit_code, error, wm_start, objects_start>>

\* save_events, lines 217-231: put_object of the next partition succeeds.  The
\* clock is read for the object name; it has not gone back since the last read.
PutPartitionOk(p) ==
    /\ pc[p] = "saving"
    /\ events_by_date[p] # <<>>
    /\ \E t \in now..MaxClock :
         LET obj == PartitionObject(Head(events_by_date[p]), t)
         IN  /\ now' = t
             /\ objects' = PutObject(objects, obj)
             /\ written' = [written EXCEPT ![p] = Append(@, obj)]
    /\ events_by_date' = [events_by_date EXCEPT ![p] = Tail(@)]
    /\ log' = [log EXCEPT ![p] = Append(@, "put_partition_ok")]
    /\ UNCHANGED calls /\ UNCHANGED <<wm, runs, pc, all_events, seen_ids, new_events,
                   exit_code, error, wm_start, objects_start>>

\* Mutant of PutPartitionFail: the exception is logged and swallowed; the loop
\* goes on with the next partition.
PutPartitionFail_Swallowed(p) ==
    /\ pc[p] = "saving"
    /\ events_by_date[p] # <<>>
    /\ events_by_date' = [events_by_date EXCEPT ![p] = Tail(@)]
    /\ log' = [log EXCEPT ![p] = Append(@, "put_partition_error")]
    /\ UNCHANGED calls /\ UNCHANGED <<now, wm, objects, runs, pc, all_events, seen_ids, new_events,
                   exit_code, error, wm_start, objects_start, written>>

\* Mutant of PutPartitionFail: before the exception is raised again, the ids
\* of the partitions written so far are saved to the watermark.
PutPartitionFail_CommitsWritten(p) ==
    /\ pc[p] = "saving"
    /\ events_by_date[p] # <<>>
    /\ \E e \in PutErrors : Failed(p, e)
    /\ wm' = Metadata(seen_ids[p] \cup UNION {BatchIds(written[p][i].lines) :
                                                i \in 1..Len(written[p])}, now)
    /\ log' = [log EXCEPT ![p] = Append(@, "put_partition_error")]
    /\ UNCHANGED calls /\ UNCHANGED <<now, objects, runs, all_events, seen_ids, new_events,
                   events_by_date, wm_start, objects_start, written>>

\* Mutant of PutPartitionFail: the first failed put of a run is logged and
\* the same partition is tried again; a second failure is raised.
PutPartitionFail_RetriesOnce(p) ==
    /\ pc[p] = "saving"
    /\ events_by_date[p] # <<>>
    /\ log' = [log EXCEPT ![p] = Append(@, "put_partition_error")]
    /\ IF \E i \in 1..Len(log[p]) : log[p][i] = "put_partition_error"
       THEN \E e \in PutErrors : Failed(p, e)
       ELSE UNCHANGED <<pc, exit_code, error>>
    /\ UNCHANGED calls /\ UNCHANGED <<now, wm, objects, runs, all_events, seen_ids, new_events,
                   events_by_date, wm_start, objects_start, written>>

\* Mutant of PutPartitionFail: the partition objects the run has put are
\* deleted again before the exception is raised.
PutPartitionFail_RollsBack(p) ==
    /\ pc[p] = "saving"
    /\ events_by_date[p] # <<>>
    /\ \E e \in PutErrors : Failed(p, e)
    /\ objects' = objects \ Range(written[p])
    /\ log' = [log EXCEPT ![p] = Append(@, "put_partition_error")]
    /\ UNCHANGED calls /\ UNCHANGED <<now, wm, runs, all_events, seen_ids, new_events,
                   events_by_date, wm_start, objects_start, written>>

\* save_events, lines 232-234: put_object raises; the exception is raised again.
PutPartitionFail(p) ==
    /\ pc[p] = "saving"
    /\ events_by_date[p] # <<>>
    /\ \E e \in PutErrors : Failed(p, e)
    /\ log' = [log EXCEPT ![p] = Append(@, "put_partition_error")]
    /\ UNCHANGED calls /\ UNCHANGED <<now, wm, objects, runs, all_events, seen_ids, new_events,
                   events_by_date, wm_start, objects_start, written>>

\* Mutant of UpdateOk: the ids in storage at the time of the save are merged
\* into the ids that are written.
UpdateOk_MergesStored(p) ==
    /\ pc[p] = "saving"
    /\ events_by_date[p] = <<>>
    /\ \E t \in now..MaxClock :
         /\ now' = t
         /\ wm' = Metadata(UpdatedSeenIds(seen_ids[p], all_events[p])
                               \cup Range(wm.seen_ids), t)
    /\ Completed(p)
    /\ log' = [log EXCEPT ![p] = Append(@, "put_watermark_ok")]
    /\ UNCHANGED calls /\ UNCHANGED <<objects, runs, all_events, seen_ids, new_events,
                   events_by_date, wm_start, objects_start, written>>

\* Mutant of UpdateOk: the put replaces the metadata object only when there
\* is one (a conditional write); on a cold start nothing is created.
UpdateOk_OnlyOverwrites(p) ==
    /\ pc[p] = "saving"
    /\ events_by_date[p] = <<>>
    /\ \E t \in now..MaxClock :
         /\ now' = t
         /\ wm' = IF wm.exists
                  THEN Metadata(UpdatedSeenIds(seen_ids[p], all_events[p]), t)
                  ELSE wm
    /\ Completed(p)
    /\ log' = [log EXCEPT ![p] = Append(@, "put_watermark_ok")]
    /\ UNCHANGED calls /\ UNCHANGED <<objects, runs, all_events, seen_ids, new_events,
                   events_by_date, wm_start, objects_start, written>>

\* run(), lines 258-267: update_last_seen_ids puts the metadata object.
UpdateOk(p) ==
    /\ pc[p] = "saving"
    /\ events_by_date[p] = <<>>
    /\ \E t \in now..MaxClock :
         /\ now' = t
         /\ wm' = Metadata(UpdatedSeenIds(seen_ids[p], all_events[p]), t)
    /\ Completed(p)
    /\ log' = [log EXCEPT ![p] = Append(@, "put_watermark_ok")]
    /\ UNCHANGED calls /\ UNCHANGED <<objects, runs, all_events, seen_ids, new_events,
                   events_by_date, wm_start, objects_start, written>>

\* Mutant of UpdateFail: the partition objects of the run are deleted again
\* before the exception is raised.
UpdateFail_RollsBack(p) ==
    /\ pc[p] = "saving"
    /\ events_by_date[p] = <<>>
    /\ \E e \in PutErrors : Failed(p, e)
    /\ objects' = objects \ Range(written[p])
    /\ log' = [log EXCEPT ![p] = Append(@, "put_watermark_error")]
    /\ UNCHANGED calls /\ UNCHANGED <<now, wm, runs, all_events, seen_ids, new_events,
                   events_by_date, wm_start, objects_start, written>>

\* Mutant of UpdateFail: the exception is logged and not raised again, so
\* run() goes on to "Collection completed successfully".
UpdateFail_Swallowed(p) ==
    /\ pc[p] = "saving"
    /\ events_by_date[p] = <<>>
    /\ Completed(p)
    /\ log' = [log EXCEPT ![p] = Append(@, "put_watermark_error")]
    /\ UNCHANGED calls /\ UNCHANGED <<now, wm, objects, runs, all_events, seen_ids, new_events,
                   events_by_date, wm_start, objects_start, written>>

\* update_last_seen_ids, lines 170-172: put_object raises.
UpdateFail(p) ==
    /\ pc[p] = "saving"
    /\ events_by_date[p] = <<>>
    /\ \E e \in PutErrors : Failed(p, e)
    /\ log' = [log EXCEPT ![p] = Append(@, "put_watermark_error")]
    /\ UNCHANGED calls /\ UNCHANGED <<now, wm, objects, runs, all_events, seen_ids, new_events,
                   events_by_date, wm_start, objects_start, written>>

\* The process has ended; the slot is free for the next invocation.
Exit(p) ==
    /\ pc[p] \in {"done", "failed"}
    /\ pc' = [pc EXCEPT ![p] = "idle"]
    /\ all_events' = [all_events EXCEPT ![p] = <<>>]
    /\ seen_ids' = [seen_ids EXCEPT ![p] = {}]
    /\ new_events' = [new_events EXCEPT ![p] = <<>>]
    /\ events_by_date' = [events_by_date EXCEPT ![p] = <<>>]
    /\ exit_code' = [exit_code EXCEPT ![p] = 0]
    /\ error' = [error EXCEPT ![p] = NoError]
    /\ log' = [log EXCEPT ![p] = <<>>]
    /\ wm_start' = [wm_start EXCEPT ![p] = NoWatermark]
    /\ objects_start' = [objects_start EXCEPT ![p] = {}]
    /\ written' = [written EXCEPT ![p] = <<>>]
    /\ UNCHANGED calls /\ UNCHANGED <<now, wm, objects, runs>>

\* Invocations follow one another in one slot: they never overlap.
Next ==
    \E p \in {"r1"} :
         \/ ConstructorRaises(p)
         \/ FetchOk(p) \/ FetchNetworkError(p) \/ FetchInvalid(p)
         \/ GetSeenOk(p) \/ GetSeenNotFound(p) \/ GetSeenError(p)
         \/ FilterRaises(p) \/ FilterNoNew(p) \/ FilterNew(p)
         \/ PutPartitionOk(p) \/ PutPartitionFail(p)
         \/ UpdateOk(p) \/ UpdateFail(p)
         \/ Exit(p)

Spec == Init /\ [][Next]_vars

\* ------------------------------------------- two invocations, history kept

\* A deployment whose watermark is not full yet.
InitSmall == Init /\ wm.total_tracked < MAX_TRACKED

\* One step of the invocation p against a feed that answers one of responses.
\* The invocation is not started again when it has ended, so that its call
\* log, its fetched batch and what it wrote stay in the state.
RunStep(p, responses) ==
    \/ ConstructorRaises(p)
    \/ FetchOkFrom(p, responses) \/ FetchNetworkError(p) \/ FetchInvalid(p)
    \/ GetSeenOk(p) \/ GetSeenNotFound(p) \/ GetSeenError(p)
    \/ FilterRaises(p) \/ FilterNoNew(p) \/ FilterNew(p)
    \/ PutPartitionOk(p) \/ PutPartitionFail(p)
    \/ UpdateOk(p) \/ UpdateFail(p)

Ended(p) == pc[p] \in {"done", "failed"}

\* The scheduler starts the second invocation after the first has ended.
NextSeq == RunStep("r1", Feeds) \/ (Ended("r1") /\ RunStep("r2", Feeds))

SpecSeq == InitSmall /\ [][NextSeq]_vars

\* Nothing keeps two invocations from overlapping: no lock, lease or token.
NextOverlap == \E p \in Procs : RunStep(p, ShortFeeds)

SpecOverlap == InitSmall /\ [][NextOverlap]_vars

\* ------------------------------------- two invocations over the same feed

\* Events around a full watermark (the ids 6..1005): two ids below every
\* tracked id, one of them with a timestamp that does not parse, the smallest
\* tracked id, and an id above every tracked id.
OldEvents ==
    {Event(4, DT_A9, "a"), Event(5, DT_BAD, "a"), Event(6, DT_B, "a"),
     Event(TopId, DT_C, "a")}

\* The feed responses: the lists of at most MaxFeed of these events, each
\* event at most once, and a list whose element has no id.
OldFeeds ==
    {f \in UNION {[1..n -> OldEvents] : n \in 0..MaxFeed} :
        \A i, j \in 1..Len(f) : f[i] = f[j] => i = j}
    \cup {<<EventNoId>>}

\* The feed does not change between the two invocations: the second one is
\* started after the first has ended and gets the list the first one got.
NextSame ==
    \/ RunStep("r1", OldFeeds)
    \/ (Ended("r1") /\ RunStep("r2", {all_events["r1"]}))

SpecSame == Init /\ [][NextSame]_vars

\* ------------------------------------------ a feed that repeats an id

\* Events that share the id 1: two of the same day, one of another day and
\* one whose timestamp does not parse; and an event with another id.
DupEvents ==
    {Event(1, DT_A19, "a"), Event(1, DT_A19, "b"), Event(1, DT_B, "a"),
     Event(1, DT_BAD, "a"), Event(4, DT_A9, "a")}

\* The feed responses: every list of at most MaxFeed of these events, and a
\* list whose element has no id.
DupFeeds == UNION {[1..n -> DupEvents] : n \in 0..MaxFeed} \cup {<<EventNoId>>}

\* One invocation against such a feed.
SpecDup == Init /\ [][RunStep("r1", DupFeeds)]_vars

\* ------------------------------------------------ one invocation, to its end

\* The process is sequential and single-threaded and each of its calls
\* returns or raises (the fetch has timeout=30, the storage client its
\* transport timeouts): a step that can be taken is taken.
SpecRun ==
    /\ InitSmall
    /\ [][RunStep("r1", Feeds)]_vars
    /\ WF_vars(RunStep("r1", Feeds))

\* ------------------------------------------ normalize_datetime on its own

\* Number of successive calls normalize_datetime(normalize_datetime(...)).
MaxCalls == 2

\* The fields a timestamp string is put together from: a well-formed value of
\* the feed, values other than the expected ones, and the missing field.
\* What precedes the date: nothing, or a space.
Prefixes == {<<>>, <<" ">>}
\* "2026-01-02", "2026-13-45", missing.
DateFields ==
    { <<"2","0","2","6","-","0","1","-","0","2">>,
      <<"2","0","2","6","-","1","3","-","4","5">>,
      <<>> }
\* " 9", " 0", " 19", " 99", "T9", missing.
HourFields ==
    { <<" ","9">>, <<" ","0">>, <<" ","1","9">>, <<" ","9","9">>, <<"T","9">>, <<>> }
\* ":38:09", ":99:99", missing.
MinuteSecondFields ==
    { <<":","3","8",":","0","9">>, <<":","9","9",":","9","9">>, <<>> }
\* " +01:00", " -05:00", " +99:99", "+01:00", " +0100", missing.
OffsetFields ==
    { <<" ","+","0","1",":","0","0">>, <<" ","-","0","5",":","0","0">>,
      <<" ","+","9","9",":","9","9">>, <<"+","0","1",":","0","0">>,
      <<" ","+","0","1","0","0">>, <<>> }
\* What follows the offset: nothing, or "Z".
Suffixes == {<<>>, <<"Z">>}

\* The strings normalize_datetime is called with.
DatetimeStrings ==
    { pre \o d \o h \o ms \o off \o suf :
        pre \in Prefixes, d \in DateFields, h \in HourFields,
        ms \in MinuteSecondFields, off \in OffsetFields, suf \in Suffixes }
    \cup {DT_A9, DT_A19, DT_B, DT_C, DT_BAD}

\* A caller holds one of the strings and has not called yet.
InitNormalize ==
    /\ InitRun
    /\ wm = NoWatermark
    /\ datetime_str \in DatetimeStrings
    /\ normalized = <<>>

\* PolisenCollector.normalize_datetime is called: with the string the first
\* time, with the result of the last call after that.
Normalize ==
    /\ Len(normalized) < MaxCalls
    /\ LET arg == IF normalized = <<>> THEN datetime_str
                  ELSE normalized[Len(normalized)]
       IN  normalized' = Append(normalized, normalize_datetime(arg))
    /\ UNCHANGED <<datetime_str, now, wm, objects, runs, pc, all_events, seen_ids,
                   new_events, events_by_date, exit_code, error, log, wm_start,
                   objects_start, written>>

SpecNormalize == InitNormalize /\ [][Normalize]_vars

\* ------------------------------------------------------ history operators

\* The calls to put_object for a partition / for the watermark.
PartitionPuts == {"put_partition_ok", "put_partition_error"}
WatermarkPuts == {"put_watermark_ok", "put_watermark_error"}

\* The calls that raised.
ErrorCalls ==
    {"init_error", "fetch_network_error", "fetch_invalid", "get_error",
     "put_partition_error", "put_watermark_error"}

\* The invocation has made a call with one of the outcomes in kinds.
Called(p, kinds) == \E i \in 1..Len(log[p]) : log[p][i] \in kinds

\* Number of calls with outcome kind among the first n calls.
CountBefore(p, kind, n) == Cardinality({i \in 1..(n - 1) : log[p][i] = kind})

\* The invocation has computed new_events (line 250 has been passed).
Filtered(p) ==
    \/ pc[p] \in {"saving", "done"}
    \/ pc[p] = "failed" /\ Called(p, PartitionPuts \cup WatermarkPuts)

\* The invocation ended with "Collection completed successfully" after
\* update_last_seen_ids returned.
Saved(p) == pc[p] = "done" /\ Called(p, {"put_watermark_ok"})

\* save_events has returned: every partition of the invocation has been put.
AllWritten(p) ==
    \/ pc[p] = "saving" /\ events_by_date[p] = <<>>
    \/ Called(p, WatermarkPuts)

\* The ids in the lines of the partition objects the invocation has put.
WrittenIds(p) == UNION {BatchIds(written[p][i].lines) : i \in 1..Len(written[p])}

\* ------------------------------------------------------------------ claims

\* C1: In every run the watermark is put only after every partition write of
\* the run has returned successfully: a call to update_last_seen_ids comes
\* after one successful put for each date partition of the run's new events
\* and after no failed one; once a partition write has failed,
\* update_last_seen_ids is not called in that run, whatever was written before.
C1_WatermarkOnlyAfterAllPartitions ==
    \A p \in Procs :
        /\ Called(p, {"put_partition_error"}) => ~Called(p, WatermarkPuts)
        /\ \A i \in 1..Len(log[p]) :
             log[p][i] \in WatermarkPuts =>
                /\ CountBefore(p, "put_partition_error", i) = 0
                /\ CountBefore(p, "put_partition_ok", i) = Len(GroupByDate(new_events[p]))

\* A run that wrote one partition, failed on the next and ended in failure.
C1_Witness ==
    \E p \in Procs :
        /\ pc[p] = "failed"
        /\ log[p] = <<"fetch_ok", "get_ok", "put_partition_ok", "put_partition_error">>

\* C2: The persisted watermark changes only in the watermark-save step (the
\* successful put of update_last_seen_ids, after all partitions are written);
\* every run that ends in failure leaves the watermark object exactly as it
\* was when the run started.
C2_WatermarkChangesOnlyInSave ==
    [][ /\ wm' # wm =>
            \E p \in Procs :
                /\ pc[p] = "saving" /\ events_by_date[p] = <<>>
                /\ log'[p] = Append(log[p], "put_watermark_ok")
        /\ \A p \in Procs : pc'[p] = "failed" => wm' = wm_start'[p] ]_vars

\* A run that failed on a partition write after writing another one, with
\* new ids fetched: the watermark is still the one it started with.
C2_Witness ==
    \E p \in Procs :
        /\ pc[p] = "failed"
        /\ Called(p, {"put_partition_error"})
        /\ written[p] # <<>>
        /\ wm = wm_start[p]
        /\ ~(BatchIds(all_events[p]) \subseteq Range(wm.seen_ids))

\* C3: The ids a run writes to partition objects are disjoint from the
\* SeenSet the run loaded from the watermark.
C3_WrittenDisjointFromLoaded ==
    \A p \in Procs : WrittenIds(p) \cap seen_ids[p] = {}

\* A run that fetched a seen id together with an unseen one and wrote.
C3_Witness ==
    \E p \in Procs :
        /\ written[p] # <<>>
        /\ BatchIds(all_events[p]) \cap seen_ids[p] # {}

\* Number of occurrences of e in the sequence s.
Count(s, e) == Cardinality({i \in 1..Len(s) : s[i] = e})

\* s and t hold the same elements the same number of times.
SameBag(s, t) ==
    /\ Len(s) = Len(t)
    /\ \A e \in Range(s) \cup Range(t) : Count(s, e) = Count(t, e)

\* The positions of the fetched batch whose id is not in the loaded SeenSet.
KeptPositions(p) ==
    {i \in 1..Len(all_events[p]) : all_events[p][i].id \notin seen_ids[p]}

\* T is the set of the k largest elements of S (all of S when it has at most k).
IsLargest(T, S, k) ==
    /\ T \subseteq S
    /\ Cardinality(T) = Min(k, Cardinality(S))
    /\ \A x \in S \ T : \A y \in T : x < y

\* C4: The new-event list of a run is exactly the events of the fetched batch
\* whose id is not in the loaded SeenSet, each as often and in the order it was
\* fetched; only the id decides (the payload does not), and fetching the same
\* events in another order gives the same new events.
C4_NewEventsAreTheUnseenIds ==
    \A p \in Procs :
        Filtered(p) =>
            LET kept == KeptPositions(p)
            IN  /\ Len(new_events[p]) = Cardinality(kept)
                /\ \A i \in kept :
                     new_events[p][Cardinality({j \in kept : j < i}) + 1] = all_events[p][i]
                /\ \A b \in Batches :
                     SameBag(b, all_events[p]) =>
                        SameBag(NewEvents(b, seen_ids[p]), new_events[p])

\* A seen id comes back with another payload, next to an unseen event.
C4_Witness ==
    \E p \in Procs :
        /\ pc[p] = "saving"
        /\ seen_ids[p] = {1, 2, 3}
        /\ all_events[p] = <<Event(1, DT_A19, "b"), Event(4, DT_A9, "a")>>
        /\ new_events[p] = <<Event(4, DT_A9, "a")>>

\* C5: After a successful run that found new events, the persisted seen_ids
\* are the MAX_TRACKED largest ids of the union of the SeenSet the run loaded
\* and the ids of all events of the fetched batch, seen or new; loaded {1,2,3}
\* and batch ids [1,4,5] give new events [4,5] and persisted {1,2,3,4,5}.
C5_SavedIsTruncatedUnion ==
    /\ \A p \in Procs :
          Saved(p) =>
             IsLargest(Range(wm.seen_ids),
                       seen_ids[p] \cup {all_events[p][i].id : i \in 1..Len(all_events[p])},
                       MAX_TRACKED)
    /\ LET e1 == Event(1, DT_A19, "a")
           e4 == Event(4, DT_A9, "a")
           e5 == Event(5, DT_B, "a")
           batch == <<e1, e4, e5>>
       IN  /\ NewEvents(batch, {1, 2, 3}) = <<e4, e5>>
           /\ Range(Metadata(UpdatedSeenIds({1, 2, 3}, batch), 0).seen_ids) = {1, 2, 3, 4, 5}

\* A run that loaded {1,2,3}, fetched the seen id 1 and the new id 4, and saved.
C5_Witness ==
    \E p \in Procs :
        /\ Saved(p)
        /\ seen_ids[p] = {1, 2, 3}
        /\ BatchIds(all_events[p]) = {1, 4}
        /\ Range(wm.seen_ids) = {1, 2, 3, 4}

\* C6: The seen_ids that update_last_seen_ids writes are at most MAX_TRACKED
\* ids, exactly the MAX_TRACKED largest of the ids passed in (all of them when
\* there are no more), in strictly descending order, and total_tracked is
\* their number.
C6_WrittenIdsAreLargestDescending ==
    \A p \in Procs :
        Saved(p) =>
            LET passed == UpdatedSeenIds(seen_ids[p], all_events[p])
                list   == wm.seen_ids
            IN  /\ wm.exists
                /\ Len(list) <= MAX_TRACKED
                /\ \A i \in 1..(Len(list) - 1) : list[i] > list[i + 1]
                /\ IsLargest(Range(list), passed, MAX_TRACKED)
                /\ wm.total_tracked = Len(list)

\* More than MAX_TRACKED ids were passed in and MAX_TRACKED were written.
C6_Witness ==
    \E p \in Procs :
        /\ Saved(p)
        /\ Cardinality(UpdatedSeenIds(seen_ids[p], all_events[p])) > MAX_TRACKED
        /\ Len(wm.seen_ids) = MAX_TRACKED
        /\ wm.seen_ids[1] = TopId

\* C7 as stated: after every successful watermark save, every id of the
\* run's fetched batch is in the persisted SeenSet.
C7_Original_EveryBatchIdRetained ==
    \A p \in Procs :
        Saved(p) => BatchIds(all_events[p]) \subseteq Range(wm.seen_ids)

\* C7 as amended: after every successful watermark save, every id of the
\* run's fetched batch, new or old, is in the persisted SeenSet unless the
\* persisted SeenSet is full (MAX_TRACKED ids) and the id is smaller than every
\* id in it.
C7_BatchIdsRetainedUnlessTruncated ==
    \A p \in Procs :
        Saved(p) =>
            \A x \in BatchIds(all_events[p]) :
                \/ x \in Range(wm.seen_ids)
                \/ /\ Len(wm.seen_ids) = MAX_TRACKED
                   /\ \A i \in 1..Len(wm.seen_ids) : x < wm.seen_ids[i]

\* A save after a fetch of an old id and a new id; both are persisted.
C7_Witness ==
    \E p \in Procs :
        /\ Saved(p)
        /\ \E x, y \in BatchIds(all_events[p]) :
              /\ x \in seen_ids[p] /\ y \notin seen_ids[p]
              /\ {x, y} \subseteq Range(wm.seen_ids)

\* C8: Across non-overlapping runs the persisted SeenSet never holds more
\* than MAX_TRACKED ids, and an id that is in the persisted SeenSet when a run
\* starts (put there by an earlier run and not evicted since) is neither
\* emitted as new nor written to a partition object by that run.
C8_PersistedIdsNeverReemitted ==
    /\ Len(wm.seen_ids) <= MAX_TRACKED
    /\ \A p \in Procs :
          LET persisted == Range(wm_start[p].seen_ids)
          IN  /\ Filtered(p) =>
                    \A i \in 1..Len(new_events[p]) : new_events[p][i].id \notin persisted
              /\ WrittenIds(p) \cap persisted = {}

\* The second run fetches id 4 again, which the first run had persisted.
C8_Witness ==
    \E p \in Procs :
        /\ runs = 2
        /\ Filtered(p)
        /\ 4 \in Range(wm_start[p].seen_ids)
        /\ 4 \in BatchIds(all_events[p])

\* C9: A run whose dedupe yields no new event ends successfully (exit code 0)
\* without any put: the partition objects and the watermark object, its
\* absence included, are what they were when the run started.
C9_NoNewEventsChangesNothing ==
    \A p \in Procs :
        (Filtered(p) /\ new_events[p] = <<>>) =>
            /\ pc[p] = "done" /\ exit_code[p] = 0
            /\ ~Called(p, PartitionPuts \cup WatermarkPuts)
            /\ wm = wm_start[p]
            /\ objects = objects_start[p]

\* A run that fetched only seen events, after an earlier run had written.
C9_Witness ==
    \E p \in Procs :
        /\ pc[p] = "done"
        /\ all_events[p] # <<>>
        /\ new_events[p] = <<>>
        /\ objects # {}

\* C10: When the watermark object does not exist (status 404),
\* get_last_seen_ids returns the empty set and does not fail: the run goes on
\* and takes every fetched event as new.
C10_MissingWatermarkIsEmptySeenSet ==
    \A p \in Procs :
        (Len(log[p]) >= 2 /\ log[p][2] = "get_404") =>
            /\ seen_ids[p] = {}
            /\ pc[p] = "failed" => (Len(log[p]) > 2 \/ ~AllHaveId(all_events[p]))
            /\ Filtered(p) => new_events[p] = all_events[p]

\* A cold-start run that takes both fetched events as new.
C10_Witness ==
    \E p \in Procs :
        /\ pc[p] = "saving"
        /\ log[p] = <<"fetch_ok", "get_404">>
        /\ ~wm.exists
        /\ Len(new_events[p]) = 2

\* C11: A failure of the watermark load other than status 404 is fatal: the
\* exception get_object raised is the one that reaches run()'s handler, the
\* run ends failed with exit code 1 without any further call, and neither a
\* partition object nor the watermark is written in that run.
C11_LoadFailureIsFatal ==
    \A p \in Procs :
        (Len(log[p]) >= 2 /\ log[p][2] = "get_error") =>
            /\ pc[p] = "failed" /\ exit_code[p] = 1
            /\ error[p].raised \in GetErrors
            /\ error[p].raised # Err("ServiceError", 404)
            /\ error[p].handled = error[p].raised
            /\ Len(log[p]) = 2
            /\ written[p] = <<>>
            /\ wm = wm_start[p] /\ objects = objects_start[p]

\* The load fails with status 500 in a run that had fetched an unseen event,
\* with a watermark object in storage.
C11_Witness ==
    \E p \in Procs :
        /\ pc[p] = "failed"
        /\ log[p] = <<"fetch_ok", "get_error">>
        /\ error[p].handled = Err("ServiceError", 500)
        /\ wm.exists
        /\ ~(BatchIds(all_events[p]) \subseteq Range(wm.seen_ids))

\* C12: A run ends in one of two outcomes, done with exit code 0 or failed
\* with exit code 1.  Done is reached either right after the filter found
\* nothing new or after all partition puts and the watermark put; a call
\* that raises (fetch, response check, load, partition put, watermark put) is
\* the last call of its run and leaves the run failed; an ended run makes no
\* further call and changes nothing in storage.
C12_TwoTerminalOutcomes ==
    /\ [](\A p \in Procs :
            LET l == log[p]
                n == Len(log[p])
            IN  /\ pc[p] \in {"idle", "fetched", "loaded", "saving", "done", "failed"}
                /\ exit_code[p] \in {0, 1}
                /\ exit_code[p] = 1 <=> pc[p] = "failed"
                /\ error[p] # NoError <=> pc[p] = "failed"
                /\ \A i \in 1..n : l[i] \in ErrorCalls => (i = n /\ pc[p] = "failed")
                /\ pc[p] = "failed" =>
                      \/ l[n] \in ErrorCalls
                      \/ n = 2 /\ ~AllHaveId(all_events[p])
                /\ pc[p] = "done" =>
                      /\ n >= 2 /\ l[1] = "fetch_ok" /\ l[2] \in {"get_ok", "get_404"}
                      /\ \/ n = 2 /\ new_events[p] = <<>>
                         \/ /\ n >= 3 /\ new_events[p] # <<>>
                            /\ l[n] = "put_watermark_ok"
                            /\ \A i \in 3..(n - 1) : l[i] = "put_partition_ok")
    /\ [][\A p \in Procs :
            pc[p] \in {"done", "failed"} =>
                /\ pc'[p] \in {pc[p], "idle"}
                /\ pc'[p] = pc[p] => (log'[p] = log[p] /\ exit_code'[p] = exit_code[p])
                /\ storage' = storage]_vars

\* A run that wrote its partitions and failed on the watermark put.
C12_Witness ==
    \E p \in Procs :
        /\ pc[p] = "failed" /\ exit_code[p] = 1
        /\ log[p] = <<"fetch_ok", "get_ok", "put_partition_ok", "put_watermark_error">>

\* C13: When the new events of the first run fall into three date partitions
\* and the put of the second partition fails, the run ends without a call to
\* update_last_seen_ids and the watermark is as it was.  A following run that
\* fetches the same batch takes the same events as new, those of all three
\* partitions; when it succeeds it has put three objects, the first with the
\* lines the first run had already put for that date: these events have been
\* stored twice, in two objects of storage whenever the two names differ.
C13_FailedSecondPartitionRedelivers ==
    LET a == "r1"
        b == "r2"
    IN  ( /\ pc[a] = "failed"
          /\ Len(log[a]) = 4
          /\ log[a][3] = "put_partition_ok" /\ log[a][4] = "put_partition_error"
          /\ Len(GroupByDate(new_events[a])) = 3 ) =>
            /\ ~Called(a, WatermarkPuts)
            /\ Len(written[a]) = 1
            /\ pc[b] = "idle" => wm = wm_start[a]
            /\ pc[b] # "idle" => wm_start[b] = wm_start[a]
            /\ (Filtered(b) /\ all_events[b] = all_events[a]) =>
                    new_events[b] = new_events[a]
            /\ (Saved(b) /\ all_events[b] = all_events[a]) =>
                    /\ Len(written[b]) = 3
                    /\ written[b][1].name.date = written[a][1].name.date
                    /\ written[b][1].lines = written[a][1].lines
                    /\ written[b][1] \in objects
                    /\ written[b][1].name # written[a][1].name =>
                           written[a][1] \in objects

\* The first run wrote one of three partitions and failed on the second; the
\* second run fetched the same batch and succeeded at a later second: storage
\* holds two objects with the same lines for that date.
C13_Witness ==
    /\ pc["r1"] = "failed"
    /\ log["r1"] = <<"fetch_ok", "get_404", "put_partition_ok", "put_partition_error">>
    /\ Len(GroupByDate(new_events["r1"])) = 3
    /\ Saved("r2")
    /\ all_events["r2"] = all_events["r1"]
    /\ Len(written["r2"]) = 3
    /\ written["r1"][1] \in objects
    /\ written["r2"][1] \in objects
    /\ written["r2"][1] # written["r1"][1]
    /\ written["r2"][1].lines = written["r1"][1].lines

\* C14: When every partition put of the first run succeeded and the
\* watermark put then failed, the run ends failed, its partition objects are
\* in storage and the watermark is what it was at the run's start.  The next
\* run takes every id the first run wrote and that it fetches again as new,
\* and has written it again once its own partition puts are done: the ids two
\* runs write are not disjoint.
C14_FailedSaveRedelivers ==
    LET a == "r1"
        b == "r2"
    IN  ( /\ pc[a] = "failed"
          /\ log[a][Len(log[a])] = "put_watermark_error" ) =>
            /\ exit_code[a] = 1
            /\ Len(written[a]) = Len(GroupByDate(new_events[a]))
            /\ pc[b] = "idle" =>
                  /\ wm = wm_start[a]
                  /\ Range(written[a]) \subseteq objects
            /\ pc[b] # "idle" => wm_start[b] = wm_start[a]
            /\ \A x \in WrittenIds(a) \cap BatchIds(all_events[b]) :
                  /\ Filtered(b) => x \in BatchIds(new_events[b])
                  /\ (pc[b] = "saving" /\ events_by_date[b] = <<>>) \/ Saved(b) =>
                        x \in WrittenIds(b)

\* The first run wrote and failed on the watermark put; the second run
\* succeeded and wrote an id the first run had written.
C14_Witness ==
    /\ pc["r1"] = "failed"
    /\ log["r1"] = <<"fetch_ok", "get_ok", "put_partition_ok", "put_watermark_error">>
    /\ Saved("r2")
    /\ WrittenIds("r1") \cap WrittenIds("r2") # {}

\* C15: The watermark put replaces the object whatever it holds: the ids a
\* run saves are computed from the ids that run loaded and the batch it
\* fetched, not from what is in storage at the time of the save.  So once a
\* run has saved, the stored ids are those of one of the runs that saved,
\* the last one, and nothing of an earlier save is merged into them.
C15_LastWriterWins ==
    /\ [][\A p \in Procs :
            (pc[p] = "saving" /\ pc'[p] = "done") =>
                /\ wm'.exists
                /\ wm'.seen_ids = SeenIdsList(seen_ids[p] \cup BatchIds(all_events[p]))]_vars
    /\ []((\E p \in Procs : Saved(p)) =>
             \E p \in Procs :
                /\ Saved(p)
                /\ Range(wm.seen_ids) = seen_ids[p] \cup BatchIds(all_events[p]))

\* Both runs loaded the same ids before either saved; both saved; the stored
\* ids lack an id that the run which saved first had fetched and saved.
C15_Witness ==
    /\ Saved("r1") /\ Saved("r2")
    /\ seen_ids["r1"] = seen_ids["r2"]
    /\ wm_start["r1"] = wm_start["r2"]
    /\ Len(wm.seen_ids) < MAX_TRACKED
    /\ \E x \in BatchIds(all_events["r1"]) :
          /\ x \notin seen_ids["r1"]
          /\ x \notin Range(wm.seen_ids)

C17_PartitionObjectNeverOverwritten ==
    [][ /\ objects \subseteq objects'
        /\ \A p \in Procs :
              Len(written'[p]) > Len(written[p]) =>
                 \A o \in objects : o.name # written'[p][Len(written'[p])].name ]_vars

\* C18: A run puts at most one object for a date key, under the name
\* events/{date key}/events-{epoch}.jsonl of the date key of its lines, and
\* all objects one run has put carry the same epoch.
C18_OneEpochPerRun ==
    \A p \in Procs :
        \A i, j \in 1..Len(written[p]) :
            /\ i # j => written[p][i].name.date # written[p][j].name.date
            /\ \A k \in 1..Len(written[p][i].lines) :
                  written[p][i].name.date = DateKey(written[p][i].lines[k])
            /\ written[p][i].name.ts = written[p][j].name.ts

\* C19: Once all partition puts of a run have succeeded, every new event
\* whose timestamp parses after normalization is a line of exactly one object
\* the run has put, as often as it is in the new events (one line for each),
\* and the date key of that object is the calendar date written in the
\* event's timestamp, in the event's own offset, not the date in UTC; the
\* objects hold no other lines.
C19_EachParsedEventInItsDatePartition ==
    \A p \in Procs :
        AllWritten(p) =>
            /\ \A i \in 1..Len(new_events[p]) :
                  LET e == new_events[p][i]
                      d == e.datetime
                      own_date == <<d[1], d[2], d[3], d[4], "/", d[6], d[7], "/", d[9], d[10]>>
                      holders == {j \in 1..Len(written[p]) : e \in Range(written[p][j].lines)}
                  IN  Storable(e) =>
                         /\ Cardinality(holders) = 1
                         /\ \A j \in holders :
                               /\ written[p][j].name.date = own_date
                               /\ Count(written[p][j].lines, e) = Count(new_events[p], e)
            /\ \A j \in 1..Len(written[p]) :
                  \A k \in 1..Len(written[p][j].lines) :
                      /\ written[p][j].lines[k] \in Range(new_events[p])
                      /\ Storable(written[p][j].lines[k])

\* A run wrote the event of 23:59:59 -05:00 (the next day in UTC) under its
\* own date, next to an event whose timestamp does not parse.
C19_Witness ==
    \E p \in Procs :
        /\ AllWritten(p)
        /\ new_events[p] = <<Event(5, DT_BAD, "a"), Event(TopId, DT_C, "a")>>
        /\ Len(written[p]) = 1
        /\ written[p][1].name.date = <<"2", "0", "2", "6", "/", "0", "1", "/", "0", "4">>
        /\ written[p][1].lines = <<Event(TopId, DT_C, "a")>>

\* C20 as stated: a new event whose timestamp does not parse after
\* normalization is in no partition object, the other new events are
\* written, and after the run's save the event's id is in the persisted
\* SeenSet; no run emits or writes an id that was persisted when it started.
C20_Original_DroppedEventIdIsSaved ==
    \A p \in Procs :
        /\ AllWritten(p) =>
              \A i \in 1..Len(new_events[p]) :
                 LET e == new_events[p][i]
                 IN  IF Storable(e)
                     THEN \E j \in 1..Len(written[p]) : e \in Range(written[p][j].lines)
                     ELSE /\ \A j \in 1..Len(written[p]) : e \notin Range(written[p][j].lines)
                          /\ Saved(p) => e.id \in Range(wm.seen_ids)
        /\ Filtered(p) =>
              \A x \in BatchIds(new_events[p]) \cup WrittenIds(p) :
                 \A k \in 1..Len(wm_start[p].seen_ids) : wm_start[p].seen_ids[k] # x

\* C20 as amended: the same, except that the id of the dropped event is in
\* the persisted SeenSet unless the persisted SeenSet is full (MAX_TRACKED
\* ids) and the id is smaller than every id in it.
C20_DroppedEventIdIsSavedUnlessTruncated ==
    \A p \in Procs :
        /\ AllWritten(p) =>
              \A i \in 1..Len(new_events[p]) :
                 LET e == new_events[p][i]
                 IN  IF Storable(e)
                     THEN \E j \in 1..Len(written[p]) : e \in Range(written[p][j].lines)
                     ELSE /\ \A j \in 1..Len(written[p]) : e \notin Range(written[p][j].lines)
                          /\ Saved(p) =>
                                \/ e.id \in Range(wm.seen_ids)
                                \/ /\ Len(wm.seen_ids) = MAX_TRACKED
                                   /\ \A k \in 1..Len(wm.seen_ids) : e.id < wm.seen_ids[k]
        /\ Filtered(p) =>
              \A x \in BatchIds(new_events[p]) \cup WrittenIds(p) :
                 \A k \in 1..Len(wm_start[p].seen_ids) : wm_start[p].seen_ids[k] # x

\* A second run fetches the event with the unparsable timestamp again: its id
\* was persisted by the first run, no object in storage holds it, and the
\* second run does not take it as new.
C20_Witness ==
    \E p \in Procs :
        /\ runs = 2
        /\ Filtered(p)
        /\ Event(5, DT_BAD, "a") \in Range(all_events[p])
        /\ 5 \in Range(wm_start[p].seen_ids)
        /\ objects # {}
        /\ \A o \in objects : 5 \notin BatchIds(o.lines)
        /\ 5 \notin BatchIds(new_events[p])

\* ------------------------------------------ claims on normalize_datetime

\* The string is YYYY-MM-DD H:MM:SS +HH:MM or -HH:MM from its first to its
\* last character, the hour one digit (the pattern the comment of line 181 names).
ExpectedShape(s) == Len(s) = 25 /\ PatternMatches(s)

\* s with one "0" put before its twelfth character, the hour digit.
ZeroPadded(s) == SubSeq(s, 1, 11) \o <<"0">> \o SubSeq(s, 12, Len(s))

\* C21: normalize_datetime is idempotent: for every string x,
\* normalize_datetime(normalize_datetime(x)) equals normalize_datetime(x); a
\* further call returns what the first call returned.
C21_NormalizeIsIdempotent ==
    \A i \in 2..Len(normalized) : normalized[i] = normalized[1]

\* A string the first call changed has gone through a second call.
C21_Witness ==
    /\ Len(normalized) >= 2
    /\ normalized[1] # datetime_str
    /\ datetime_str = DT_A9

\* C22: normalize_datetime returns its input unchanged, character for
\* character, for every string that is not of the shape YYYY-MM-DD H:MM:SS
\* +HH:MM / -HH:MM with a one-digit hour: strings with a two-digit hour, the
\* empty string, strings of another format.  (The function is total in the
\* model, so "never raises" adds nothing to the formula.)
C22_UnchangedOutsideThePattern ==
    (Len(normalized) >= 1 /\ ~ExpectedShape(datetime_str))
        => normalized[1] = datetime_str

\* C23: for every string whose hour has exactly one digit (the string begins
\* with YYYY-MM-DD H:MM:SS and an offset), the result is the input with a
\* single "0" put before the hour digit: no other character is added, removed
\* or altered.
C23_OnlyTheHourIsPadded ==
    (Len(normalized) >= 1 /\ PatternMatches(datetime_str))
        => normalized[1] = ZeroPadded(datetime_str)

\* ---------------------------------------------------- claims on the fetch

\* The calls of requests.get, by their outcome.
FetchCalls == {"fetch_ok", "fetch_network_error", "fetch_invalid"}

\* The invocation has made its first call, with the outcome kind.
FirstCall(p, kind) == log[p] # <<>> /\ log[p][1] = kind

\* No invocation has started after p (the second slot is started last).
NoLaterRun(p) == p = "r2" \/ log["r2"] = <<>>

\* The fetch is the only call the invocation has made: it has not read the
\* watermark and has put nothing; storage is as it was when the invocation
\* started, unless a later invocation has run since.
NoStorageOperation(p) ==
    /\ Len(log[p]) = 1
    /\ written[p] = <<>>
    /\ seen_ids[p] = {}
    /\ NoLaterRun(p) => (wm = wm_start[p] /\ objects = objects_start[p])

\* C24: fetch_events makes one request per call and does not retry: no run
\* makes a second request; when the request fails (timeout, connection
\* failure, HTTP error status) the run has failed with that same exception
\* and has made no storage operation: no watermark read, no partition write,
\* no watermark write.
C24_FetchFailsOnceWithoutStorage ==
    \A p \in Procs :
        /\ \A i \in 2..Len(log[p]) : log[p][i] \notin FetchCalls
        /\ FirstCall(p, "fetch_network_error") =>
               /\ pc[p] = "failed"
               /\ exit_code[p] = 1
               /\ error[p].raised \in RequestExceptions
               /\ error[p].handled = error[p].raised
               /\ NoStorageOperation(p)

\* A run against a deployment with a watermark has failed on an HTTP 500.
C24_Witness ==
    /\ FirstCall("r1", "fetch_network_error")
    /\ pc["r1"] = "failed"
    /\ error["r1"].raised = Err("HTTPError", 500)
    /\ wm.exists

\* C25: when the body of a successful answer is not JSON or not a list,
\* fetch_events fails with a ValueError before anything else is done: the
\* watermark is not loaded, nothing is written and the run has failed; an
\* empty list is a valid answer: the batch is empty and the run goes on
\* (it can only fail at the load of the watermark).
C25_InvalidBodyFailsBeforeStorage ==
    \A p \in Procs :
        /\ FirstCall(p, "fetch_invalid") =>
               /\ pc[p] = "failed"
               /\ exit_code[p] = 1
               /\ IsValueError(error[p].raised)
               /\ error[p].handled = error[p].raised
               /\ NoStorageOperation(p)
        /\ (FirstCall(p, "fetch_ok") /\ all_events[p] = <<>>) =>
               /\ new_events[p] = <<>>
               /\ pc[p] = "failed" => error[p].raised \in GetErrors

\* A run has failed on a body that is not a list; the next one has got the
\* empty list and has completed.
C25_Witness ==
    /\ FirstCall("r1", "fetch_invalid")
    /\ pc["r1"] = "failed"
    /\ error["r1"].raised = Err("ValueError", 0)
    /\ wm.exists
    /\ FirstCall("r2", "fetch_ok")
    /\ all_events["r2"] = <<>>
    /\ pc["r2"] = "done"

\* C26: the credentials are resolved and the storage client is created in the
\* constructor, before run(): when that fails, the exception leaves the
\* constructor as it was raised (run() is never entered, so its handler does
\* not see it), the invocation ends, and it has made no feed fetch and no
\* read or write of object storage.
C26_ConstructorFailureDoesNothing ==
    \A p \in Procs :
        /\ \A i \in 2..Len(log[p]) : log[p][i] # "init_error"
        /\ FirstCall(p, "init_error") =>
               /\ pc[p] = "failed"
               /\ exit_code[p] = 1
               /\ error[p].raised \in InitErrors
               /\ error[p].handled = Err("none", 0)
               /\ all_events[p] = <<>>
               /\ NoStorageOperation(p)

\* The vault refuses the credentials, with a watermark object in storage.
C26_Witness ==
    /\ FirstCall("r1", "init_error")
    /\ pc["r1"] = "failed"
    /\ error["r1"].raised = Err("VaultError", 401)
    /\ wm.exists

\* -------------------------------------------------- claims on a whole run

\* The run started from a cold start (no watermark object) and has ended
\* with "Collection completed successfully".
ColdStartDone(p) == pc[p] = "done" /\ ~wm_start[p].exists

\* C27 as stated: starting from a cold start, the watermark object exists
\* after the first run that ends successfully.
C27_Original_WatermarkAfterFirstSuccess ==
    \A p \in Procs : ColdStartDone(p) => wm.exists

\* C27: starting from a cold start, the watermark object exists after the
\* first run that ends successfully with a batch that is not empty, and it
\* then holds ids of that batch; a cold-start run that fetched the empty list
\* ends successfully as well, without a put of the watermark: with one
\* invocation at a time there is still no watermark object after it.
C27_WatermarkAfterFirstSuccessWithEvents ==
    \A p \in Procs :
        ColdStartDone(p) =>
            /\ all_events[p] # <<>> =>
                   /\ wm.exists
                   /\ Called(p, {"put_watermark_ok"})
                   /\ wm.seen_ids # <<>>
                   /\ Range(wm.seen_ids) \subseteq BatchIds(all_events[p])
            /\ all_events[p] = <<>> => (~wm.exists /\ Len(log[p]) = 2)

\* A cold-start run has fetched events and has ended successfully.
C27_Witness ==
    /\ ColdStartDone("r1")
    /\ all_events["r1"] # <<>>
    /\ wm.exists
    /\ runs = 1

\* Number of calls of the invocation whose outcome is one of kinds.
CallCount(p, kinds) == Cardinality({i \in 1..Len(log[p]) : log[p][i] \in kinds})

\* The calls of get_object for the watermark, by their outcome.
GetCalls == {"get_ok", "get_404", "get_error"}

\* The date partitions of the new events of the invocation.
PartitionCount(p) == Len(GroupByDate(new_events[p]))

\* C28: every run terminates, done or failed, after a bounded number of
\* steps and without a retry: a run makes at most one feed fetch, at most one
\* read of the watermark, at most one put per date partition (no two of its
\* partition objects are of the same date) and at most one put of the
\* watermark, and a run that has started does end.
C28_RunTerminatesWithoutRetry ==
    /\ [](\A p \in Procs :
            /\ CallCount(p, FetchCalls) <= 1
            /\ CallCount(p, GetCalls) <= 1
            /\ CallCount(p, WatermarkPuts) <= 1
            /\ CallCount(p, PartitionPuts) <= PartitionCount(p)
            /\ \A i, j \in 1..Len(written[p]) :
                   written[p][i].name.date = written[p][j].name.date => i = j
            /\ Len(log[p]) <= 3 + PartitionCount(p))
    /\ \A p \in Procs : (pc[p] # "idle") ~> Ended(p)

\* A run has written three date partitions and the watermark and is done.
C28_Witness ==
    /\ pc["r1"] = "done"
    /\ log["r1"] = <<"fetch_ok", "get_404", "put_partition_ok", "put_partition_ok",
                    "put_partition_ok", "put_watermark_ok">>

\* ------------------------------------------------- claims on the eviction

\* The watermark object as the first invocation left it.
WatermarkAfterFirst == IF log["r2"] = <<>> THEN wm ELSE wm_start["r2"]

\* x is smaller than the MAX_TRACKED largest ids of the union of the ids the
\* invocation loaded and the ids it fetched.
BelowKept(p, x) ==
    Cardinality({y \in UpdatedSeenIds(seen_ids[p], all_events[p]) : y > x})
        >= MAX_TRACKED

\* An event of the batch with the id x gets a date key.
StorableId(batch, x) == \E i \in 1..Len(batch) : batch[i].id = x /\ Storable(batch[i])

\* The ids of the batch of a run that has saved the watermark which are
\* smaller than the ids that were kept.
EvictedIds(p) ==
    IF Saved(p) THEN {x \in BatchIds(all_events[p]) : BelowKept(p, x)} ELSE {}

\* C29 as stated: a fetched id smaller than the 1000 largest ids of the
\* union is written as new in this run, is absent from the saved SeenSet, and
\* is emitted and written again by the next successful run over the same feed.
C29_Original_EvictedIdIsWrittenTwice ==
    \A x \in EvictedIds("r1") :
        /\ x \in BatchIds(new_events["r1"])
        /\ x \in WrittenIds("r1")
        /\ x \notin Range(WatermarkAfterFirst.seen_ids)
        /\ pc["r2"] = "done" =>
               (x \in BatchIds(new_events["r2"]) /\ x \in WrittenIds("r2"))

\* C29: a fetched id smaller than the 1000 largest ids of the union is absent
\* from the saved SeenSet and is emitted as new by the next successful run
\* over the same feed, and written by it when its timestamp parses.  In this
\* run it is emitted as new unless the loaded SeenSet held it (then an earlier
\* run emitted it), and written when it is new and its timestamp parses.
C29_EvictedIdIsEmittedAgain ==
    \A x \in EvictedIds("r1") :
        /\ x \in BatchIds(new_events["r1"]) <=> x \notin seen_ids["r1"]
        /\ x \in WrittenIds("r1") <=>
               (x \notin seen_ids["r1"] /\ StorableId(all_events["r1"], x))
        /\ x \notin Range(WatermarkAfterFirst.seen_ids)
        /\ pc["r2"] = "done" =>
               /\ Saved("r2")
               /\ x \in BatchIds(new_events["r2"])
               /\ x \in WrittenIds("r2") <=> StorableId(all_events["r2"], x)

\* The first run wrote the event 4 as new and saved 1000 larger ids; the next
\* run over the same feed has written the event 4 again.
C29_Witness ==
    /\ 4 \in EvictedIds("r1")
    /\ 4 \in WrittenIds("r1")
    /\ pc["r2"] = "done"
    /\ 4 \in WrittenIds("r2")

\* ---------------------------------------- claims on duplicates in a batch

\* The positions of the events with the id x in a list of events.
WithId(events, x) == {i \in 1..Len(events) : events[i].id = x}

\* The ids that occur more than once in the batch of the invocation and are
\* not in the SeenSet it loaded, once the filter has run.
RepeatedNewIds(p) ==
    IF Filtered(p)
    THEN {x \in BatchIds(all_events[p]) \ seen_ids[p] :
             Cardinality(WithId(all_events[p], x)) >= 2}
    ELSE {}

\* The id has been cut off by the truncation: the watermark holds MAX_TRACKED
\* ids and every one of them is larger.
Evicted(x) ==
    /\ wm.total_tracked = MAX_TRACKED
    /\ \A k \in 1..Len(wm.seen_ids) : wm.seen_ids[k] > x

\* C30 as stated: two events of a batch with the same id, not in the loaded
\* SeenSet, are both emitted as new and both written by the run, and the id
\* is in the saved SeenSet once.
C30_Original_DuplicatesBothWritten ==
    \A p \in Procs : \A x \in RepeatedNewIds(p) :
        /\ Cardinality(WithId(new_events[p], x)) = Cardinality(WithId(all_events[p], x))
        /\ AllWritten(p) =>
               \A i \in WithId(all_events[p], x) :
                   \E k \in 1..Len(written[p]) :
                       Count(written[p][k].lines, all_events[p][i])
                           = Count(all_events[p], all_events[p][i])
        /\ Saved(p) => Count(wm.seen_ids, x) = 1

\* C30: two events of a batch with the same id, not in the loaded SeenSet,
\* are both emitted as new; each of them whose timestamp parses is written by
\* the run, as often as it is in the batch, in the partition object of its
\* date (the same object, or two objects when the dates differ), and the
\* others are in no object; the id is in the saved SeenSet once, unless the
\* truncation to 1000 ids has cut it off.
C30_DuplicatesAreNotCollapsed ==
    \A p \in Procs : \A x \in RepeatedNewIds(p) :
        /\ Cardinality(WithId(new_events[p], x)) = Cardinality(WithId(all_events[p], x))
        /\ AllWritten(p) =>
               \A i \in WithId(all_events[p], x) :
                   LET e == all_events[p][i]
                   IN  IF Storable(e)
                       THEN \E k \in 1..Len(written[p]) :
                               /\ written[p][k].name.date = DateKey(e)
                               /\ Count(written[p][k].lines, e) = Count(all_events[p], e)
                               /\ \A j \in 1..Len(written[p]) :
                                      j # k => Count(written[p][j].lines, e) = 0
                       ELSE \A k \in 1..Len(written[p]) :
                               Count(written[p][k].lines, e) = 0
        /\ Saved(p) =>
               /\ Count(wm.seen_ids, x) <= 1
               /\ Count(wm.seen_ids, x) = 0 => Evicted(x)

\* A cold-start run fetched three events with the id 1, two of one day and
\* one of another day, wrote two objects and saved the id.
C30_Witness ==
    /\ Saved("r1")
    /\ all_events["r1"] = <<Event(1, DT_A19, "a"), Event(1, DT_B, "a"), Event(1, DT_A19, "b")>>
    /\ Len(written["r1"]) = 2
    /\ Len(written["r1"][1].lines) = 2
    /\ wm.seen_ids = <<1>>

\* ------------------------------------------- claims on failures of a run

\* The put of a partition has raised in the invocation.
PartitionPutFailed(p) == Called(p, {"put_partition_error"})

\* C31: the partitions are put one date after the other and nothing is
\* rolled back: when the put of a partition has failed, every partition
\* object the run put before is in storage, the failed put is the last call
\* of the run (the partitions after it are not attempted, the watermark is
\* not put), and the exception has ended the run with exit code 1.
C31_PartitionFailureKeepsEarlierObjects ==
    \A p \in Procs :
        PartitionPutFailed(p) =>
            /\ Range(written[p]) \subseteq objects
            /\ objects = objects_start[p] \cup Range(written[p])
            /\ log[p][Len(log[p])] = "put_partition_error"
            /\ CallCount(p, PartitionPuts) = Len(written[p]) + 1
            /\ Len(events_by_date[p]) = PartitionCount(p) - Len(written[p])
            /\ ~Called(p, WatermarkPuts)
            /\ wm = wm_start[p]
            /\ pc[p] = "failed" /\ exit_code[p] = 1
            /\ error[p].raised \in PutErrors
            /\ error[p].handled = error[p].raised

\* Of three date partitions the first has been put, the put of the second
\* has failed and the third has not been attempted.
C31_Witness ==
    /\ log["r1"] = <<"fetch_ok", "get_ok", "put_partition_ok", "put_partition_error">>
    /\ PartitionCount("r1") = 3
    /\ Len(written["r1"]) = 1
    /\ written["r1"][1] \in objects
    /\ Len(events_by_date["r1"]) = 2

\* ------------------------------- one invocation over malformed elements

\* An element of the feed that has an id and no datetime field.
EventNoDatetime(id) ==
    [isdict |-> TRUE, has_id |-> TRUE, id |-> id,
     has_datetime |-> FALSE, datetime |-> <<>>, payload |-> "a"]

\* An element of the feed that is not a JSON object (a string, a number,
\* null, a list).
NotAnObject ==
    [isdict |-> FALSE, has_id |-> FALSE, id |-> 0,
     has_datetime |-> FALSE, datetime |-> <<>>, payload |-> "a"]

\* A valid event, an event whose timestamp does not parse, events without a
\* datetime field below and above a full watermark, an object without an id
\* and an element that is not an object.
FieldEvents ==
    {Event(4, DT_A9, "a"), Event(5, DT_BAD, "a"),
     EventNoDatetime(5), EventNoDatetime(TopId), EventNoId, NotAnObject}

\* The feed responses: the lists of at most MaxBatch of these elements, each
\* element at most once.
FieldFeeds ==
    {f \in UNION {[1..n -> FieldEvents] : n \in 0..MaxBatch} :
        \A i, j \in 1..Len(f) : f[i] = f[j] => i = j}

\* Two invocations, the second started after the first has ended.
NextFields == RunStep("r1", FieldFeeds) \/ (Ended("r1") /\ RunStep("r2", FieldFeeds))

SpecFields == Init /\ [][NextFields]_vars

\* The watermark object as the invocation left it.
WatermarkAfter(p) == IF p = "r1" THEN WatermarkAfterFirst ELSE wm

\* The id is in the watermark object the invocation left.
Persisted(p, x) ==
    \E k \in 1..Len(WatermarkAfter(p).seen_ids) : WatermarkAfter(p).seen_ids[k] = x

\* The truncation has cut the id off the watermark the invocation left: the
\* watermark holds MAX_TRACKED ids and every one of them is larger.
CutOff(p, x) ==
    /\ WatermarkAfter(p).total_tracked = MAX_TRACKED
    /\ \A k \in 1..Len(WatermarkAfter(p).seen_ids) : WatermarkAfter(p).seen_ids[k] > x

\* The filter of the invocation has found new events and save_events gives
\* none of them a date key: each lacks the datetime field or has a timestamp
\* that does not parse.
NoneStorable(p) ==
    /\ Filtered(p)
    /\ new_events[p] # <<>>
    /\ \A i \in 1..Len(new_events[p]) : ~Storable(new_events[p][i])

\* C32 as stated: when no new event of the run gets a date key, the run puts
\* no partition object, puts the watermark with the ids of those events in
\* it, and ends with exit code 0.
C32_Original_NothingStorableStillSaves ==
    \A p \in Procs :
        NoneStorable(p) =>
            /\ ~Called(p, PartitionPuts)
            /\ written[p] = <<>>
            /\ NoLaterRun(p) => objects = objects_start[p]
            /\ pc[p] = "failed" => log[p][Len(log[p])] = "put_watermark_error"
            /\ pc[p] = "done" =>
                  /\ Saved(p) /\ exit_code[p] = 0
                  /\ \A x \in BatchIds(new_events[p]) : Persisted(p, x)

\* C32: when no new event of the run gets a date key, the run puts no
\* partition object, puts the watermark, and ends with exit code 0; the id of
\* each of those events is in the watermark unless the truncation to
\* MAX_TRACKED ids has cut it off.
C32_NothingStorableStillSavesUnlessTruncated ==
    \A p \in Procs :
        NoneStorable(p) =>
            /\ ~Called(p, PartitionPuts)
            /\ written[p] = <<>>
            /\ NoLaterRun(p) => objects = objects_start[p]
            /\ pc[p] = "failed" => log[p][Len(log[p])] = "put_watermark_error"
            /\ pc[p] = "done" =>
                  /\ Saved(p) /\ exit_code[p] = 0
                  /\ WatermarkAfter(p).exists
                  /\ \A x \in BatchIds(new_events[p]) : Persisted(p, x) \/ CutOff(p, x)
                  /\ \A x \in BatchIds(new_events[p]) : CutOff(p, x) <=> BelowKept(p, x)

\* The run found an event whose timestamp does not parse and an event
\* without a datetime field, put no object, and saved both ids.
C32_Witness ==
    /\ new_events["r1"] = <<Event(5, DT_BAD, "a"), EventNoDatetime(TopId)>>
    /\ log["r1"] = <<"fetch_ok", "get_ok", "put_watermark_ok">>
    /\ pc["r1"] = "done" /\ exit_code["r1"] = 0
    /\ log["r2"] = <<>>
    /\ objects = {}
    /\ Persisted("r1", 5) /\ Persisted("r1", TopId)

\* The batch of the invocation has an element that is not an object or has
\* no id field.
HasElementWithoutId(p) == FirstCall(p, "fetch_ok") /\ ~AllHaveId(all_events[p])

\* The new events of the invocation that have an id and no datetime field.
WithoutDatetime(p) ==
    {e \in Range(new_events[p]) : e.isdict /\ e.has_id /\ ~e.has_datetime}

\* C33 as stated: a batch with an element that has no id or is not an object
\* makes the run fail with exit code 1 in the filter, after the watermark was
\* read and before any put, whatever the other elements are; a new event
\* with an id and without a datetime field is in no partition object while
\* the other new events are written, and its id is in the saved watermark.
C33_Original_MissingIdFailsMissingDatetimeIsSkipped ==
    \A p \in Procs :
        /\ HasElementWithoutId(p) =>
              /\ pc[p] \in {"fetched", "loaded", "failed"}
              /\ ~Called(p, PartitionPuts \cup WatermarkPuts)
              /\ NoLaterRun(p) => (wm = wm_start[p] /\ objects = objects_start[p])
              /\ pc[p] = "failed" =>
                    /\ exit_code[p] = 1
                    /\ \/ log[p] = <<"fetch_ok", "get_error">>
                       \/ /\ log[p] \in {<<"fetch_ok", "get_ok">>, <<"fetch_ok", "get_404">>}
                          /\ error[p].raised \in {Err("KeyError", 0), Err("TypeError", 0)}
                          /\ error[p].handled = error[p].raised
        /\ AllWritten(p) =>
              /\ \A i \in 1..Len(new_events[p]) :
                    Storable(new_events[p][i]) <=>
                        \E j \in 1..Len(written[p]) :
                            new_events[p][i] \in Range(written[p][j].lines)
              /\ Saved(p) => \A e \in WithoutDatetime(p) : Persisted(p, e.id)

\* C33: the same, except that the id of the event without a datetime field
\* is in the saved watermark unless the truncation to MAX_TRACKED ids has cut
\* it off.
C33_MissingIdFailsMissingDatetimeIsSkipped ==
    \A p \in Procs :
        /\ HasElementWithoutId(p) =>
              /\ pc[p] \in {"fetched", "loaded", "failed"}
              /\ ~Called(p, PartitionPuts \cup WatermarkPuts)
              /\ NoLaterRun(p) => (wm = wm_start[p] /\ objects = objects_start[p])
              /\ pc[p] = "failed" =>
                    /\ exit_code[p] = 1
                    /\ \/ log[p] = <<"fetch_ok", "get_error">>
                       \/ /\ log[p] \in {<<"fetch_ok", "get_ok">>, <<"fetch_ok", "get_404">>}
                          /\ error[p].raised \in {Err("KeyError", 0), Err("TypeError", 0)}
                          /\ error[p].handled = error[p].raised
        /\ AllWritten(p) =>
              /\ \A i \in 1..Len(new_events[p]) :
                    Storable(new_events[p][i]) <=>
                        \E j \in 1..Len(written[p]) :
                            new_events[p][i] \in Range(written[p][j].lines)
              /\ Saved(p) =>
                    \A e \in WithoutDatetime(p) :
                        /\ Persisted(p, e.id) \/ CutOff(p, e.id)
                        /\ CutOff(p, e.id) <=> BelowKept(p, e.id)

\* The first run got a valid event and an element that is not an object and
\* failed in the filter after the watermark read, with nothing put; the
\* second run got the valid event and an event without a datetime field,
\* wrote the first and saved the ids of both.
C33_Witness ==
    /\ all_events["r1"] = <<Event(4, DT_A9, "a"), NotAnObject>>
    /\ log["r1"] = <<"fetch_ok", "get_ok">>
    /\ pc["r1"] = "failed" /\ exit_code["r1"] = 1
    /\ error["r1"].raised = Err("TypeError", 0)
    /\ new_events["r2"] = <<Event(4, DT_A9, "a"), EventNoDatetime(TopId)>>
    /\ log["r2"] = <<"fetch_ok", "get_ok", "put_partition_ok", "put_watermark_ok">>
    /\ pc["r2"] = "done"
    /\ WrittenIds("r2") = {4}
    /\ Persisted("r2", 4) /\ Persisted("r2", TopId)

\* ------------------------------ overlapping invocations at a full watermark

\* The feed responses of at most one event around a full watermark, and the
\* list whose element has no id.
OneFeeds == {f \in OldFeeds : Len(f) <= 1}

\* Two invocations in any interleaving, also from a watermark of MAX_TRACKED
\* ids; run one after the other they are a sequence of non-overlapping runs.
NextOverlapOld == \E p \in Procs : RunStep(p, OneFeeds)

SpecOverlapOld == Init /\ [][NextOverlapOld]_vars

\* The step is the put of the watermark by the invocation.
SavesWatermark(p) == pc[p] = "saving" /\ pc'[p] = "done"

\* No put of the watermark has come between the start of the invocation and
\* now: the watermark in storage is the one the invocation started with.
NoSaveSinceStart(p) == wm = wm_start[p]

\* The largest id of the list after is not below any id of the list before.
LargestNotBelow(before, after) ==
    before # <<>> =>
        \E i \in 1..Len(after) : \A k \in 1..Len(before) : after[i] >= before[k]

\* The ids the invocation passes to update_last_seen_ids that are not in the
\* list kept.
CutBySave(p, kept) == (seen_ids[p] \cup BatchIds(all_events[p])) \ Range(kept)

\* C34: at every put of the watermark, the ids that the save cuts off are
\* smaller than every id it keeps; when no other put of the watermark has
\* come since the run started (the runs do not overlap), the largest id of
\* the watermark after the put is not below the largest id before it.
C34_LargestIdNeverDecreasesWithoutOverlap ==
    [][\A p \in Procs :
          SavesWatermark(p) =>
              /\ \A x \in CutBySave(p, wm'.seen_ids) :
                     \A k \in 1..Len(wm'.seen_ids) : x < wm'.seen_ids[k]
              /\ NoSaveSinceStart(p) => LargestNotBelow(wm.seen_ids, wm'.seen_ids)]_vars

\* Both runs loaded the watermark of the ids 6..1005.  The first fetched the
\* id 1006 and saved 7..1006, cutting off 6; the second fetched the id 4 and
\* saved 6..1005 over it, cutting off 4: the largest persisted id went from
\* 1006 down to 1005.
C34_Witness ==
    /\ wm_start["r1"].total_tracked = MAX_TRACKED
    /\ wm_start["r2"] = wm_start["r1"]
    /\ all_events["r1"] = <<Event(TopId, DT_C, "a")>>
    /\ all_events["r2"] = <<Event(4, DT_A9, "a")>>
    /\ Saved("r1") /\ Saved("r2")
    /\ TopId \notin seen_ids["r2"]
    /\ wm.seen_ids[1] = TopId - 1
    /\ \A k \in 1..Len(wm.seen_ids) : wm.seen_ids[k] < TopId
    /\ CutBySave("r1", SeenIdsList(UpdatedSeenIds(seen_ids["r1"], all_events["r1"]))) = {6}
    /\ CutBySave("r2", wm.seen_ids) = {4}

\* ------------------------------------- claims on runs that all succeed

\* The lines with the id x in the partition objects the invocations have
\* put, as invocation, object and line number.
LinesWritten(x) ==
    {t \in UNION {{<<p, k, i>> : i \in 1..Len(written[p][k].lines)} :
                     <<p, k>> \in UNION {{<<q, j>> : j \in 1..Len(written[q])} : q \in Procs}} :
        written[t[1]][t[2]].lines[t[3]].id = x}

\* The partition objects put by the invocations that hold the id x.
ObjectsWritten(x) == {<<t[1], t[2]>> : t \in LinesWritten(x)}

\* C35: when the runs do not overlap and none has failed, the ids of a batch
\* are pairwise distinct and fewer than MAX_TRACKED ids have been seen, every
\* id that has been written is in one partition object of the whole history,
\* on one line, and is in the watermark that the run which wrote it left at
\* its end.
C35_EachIdWrittenOnceAndPersisted ==
    (\A p \in Procs : pc[p] # "failed") =>
        /\ \A x \in WrittenIds("r1") \cup WrittenIds("r2") :
               /\ Cardinality(ObjectsWritten(x)) = 1
               /\ Cardinality(LinesWritten(x)) = 1
        /\ \A p \in Procs :
               pc[p] = "done" =>
                   /\ WatermarkAfter(p).total_tracked < MAX_TRACKED
                   /\ \A x \in WrittenIds(p) : Persisted(p, x)

\* The first run wrote the event 4 and saved its id; the second run fetched
\* the events 4 and 5, wrote the event 5 only and saved: each id is in one
\* object.
C35_Witness ==
    /\ Saved("r1") /\ WrittenIds("r1") = {4}
    /\ Saved("r2")
    /\ all_events["r2"] = <<Event(4, DT_A9, "a"), Event(5, DT_B, "a")>>
    /\ WrittenIds("r2") = {5}
    /\ ObjectsWritten(4) = {<<"r1", 1>>}
    /\ ObjectsWritten(5) = {<<"r2", 1>>}
    /\ Persisted("r1", 4) /\ Persisted("r2", 4) /\ Persisted("r2", 5)

====
